---- MODULE Spec2Model ----
(***************************************************************************)
(* Model of the nfx-datetime value types: DateTime (Instant), TimeSpan     *)
(* (Duration) and DateTimeOffset (OffsetInstant).                          *)
(*                                                                         *)
(* Representation of a 64-bit tick count.  TLC integers are 32 bits wide,  *)
(* so a tick count t is held as the record [d, s, f] with                  *)
(*      t = d * TICKS_PER_DAY + s * TICKS_PER_SECOND + f,                  *)
(*      0 <= s < SECONDS_PER_DAY,  0 <= f < TICKS_PER_SECOND,              *)
(* d any integer (so a negative t has a negative d).  Every integer has    *)
(* exactly one such record, so record equality is tick equality.           *)
(* Strings are sequences of one-character strings.                         *)
(***************************************************************************)
EXTENDS Integers, Sequences, FiniteSets, TLC

VARIABLES op, civ, dt, dec, ts, dto, text, ok, prev, aux

vars == <<op, civ, dt, dec, ts, dto, text, ok, prev, aux>>

-----------------------------------------------------------------------------
(* Constants.h *)

MILLISECONDS_PER_SECOND == 1000
SECONDS_PER_MINUTE == 60
SECONDS_PER_HOUR == SECONDS_PER_MINUTE * 60
SECONDS_PER_DAY == SECONDS_PER_HOUR * 24
MINUTES_PER_HOUR == 60
HOURS_PER_DAY == 24
TICKS_PER_MILLISECOND == 10000
TICKS_PER_SECOND == TICKS_PER_MILLISECOND * 1000
MIN_YEAR == 1
MAX_YEAR == 9999
DAYS_PER_400_YEARS == 146097
DAYS_PER_100_YEARS == 36524
DAYS_PER_4_YEARS == 1461
DAYS_PER_YEAR == 365

-----------------------------------------------------------------------------
(* 64-bit tick arithmetic on the [d, s, f] records *)

\* C++ integer division and remainder (truncation toward zero), b > 0
CDiv(a, b) == IF a >= 0 THEN a \div b ELSE -((-a) \div b)

CMod(a, b) == a - b * CDiv(a, b)

\* the record of the tick count d*TICKS_PER_DAY + s*TICKS_PER_SECOND + f
Tk(d, s, f) ==
    LET s1 == s + (f \div TICKS_PER_SECOND)
    IN  [d |-> d + (s1 \div SECONDS_PER_DAY),
         s |-> s1 % SECONDS_PER_DAY,
         f |-> f % TICKS_PER_SECOND]

TkZero == [d |-> 0, s |-> 0, f |-> 0]

TkLess(a, b) ==
    \/ a.d < b.d
    \/ a.d = b.d /\ a.s < b.s
    \/ a.d = b.d /\ a.s = b.s /\ a.f < b.f

TkLeq(a, b) == a = b \/ TkLess(a, b)

\* std::numeric_limits<std::int64_t>::max() and min(), and 2^64
INT64_MAX == [d |-> 10675199, s |-> 10085, f |-> 4775807]

INT64_MIN == [d |-> -10675200, s |-> 76314, f |-> 5224192]

TwoTo64 == [d |-> 21350398, s |-> 20170, f |-> 9551616]

\* the value a 64-bit two's complement register holds for the exact result t
Wrap64(t) ==
    IF TkLess(INT64_MAX, t)
    THEN Tk(t.d - TwoTo64.d, t.s - TwoTo64.s, t.f - TwoTo64.f)
    ELSE IF TkLess(t, INT64_MIN)
         THEN Tk(t.d + TwoTo64.d, t.s + TwoTo64.s, t.f + TwoTo64.f)
         ELSE t

\* std::int64_t a + b, a - b, -a
TkAdd(a, b) == Wrap64(Tk(a.d + b.d, a.s + b.s, a.f + b.f))

TkSub(a, b) == Wrap64(Tk(a.d - b.d, a.s - b.s, a.f - b.f))

TkNeg(a) == Wrap64(Tk(-a.d, -a.s, -a.f))

\* ticks / TICKS_PER_DAY in C++ (truncating)
TkDays(t) == IF t.d < 0 /\ (t.s # 0 \/ t.f # 0) THEN t.d + 1 ELSE t.d

MIN_DATETIME_TICKS == TkZero

MAX_DATETIME_TICKS == [d |-> 3652058, s |-> 86399, f |-> 9999999]

UNIX_EPOCH_TICKS == [d |-> 719162, s |-> 0, f |-> 0]

MICROSOFT_FILETIME_EPOCH_TICKS == [d |-> 584388, s |-> 0, f |-> 0]

-----------------------------------------------------------------------------
(* DateTime.inl: validation helpers *)

\* a leap-year rule without the century exception
isLeapYear_EveryFourth(year) == CMod(year, 4) = 0

isLeapYear(year) ==
    (CMod(year, 4) = 0 /\ CMod(year, 100) # 0) \/ CMod(year, 400) = 0

daysInMonth(year, month) ==
    IF month < 1 \/ month > 12 THEN 0
    ELSE IF month = 2 /\ isLeapYear(year) THEN 29
    ELSE CASE month = 1 -> 31
           [] month = 2 -> 28
           [] month = 3 -> 31
           [] month = 4 -> 30
           [] month = 5 -> 31
           [] month = 6 -> 30
           [] month = 7 -> 31
           [] month = 8 -> 31
           [] month = 9 -> 30
           [] month = 10 -> 31
           [] month = 11 -> 30
           [] month = 12 -> 31

-----------------------------------------------------------------------------
(* DateTime.cpp: internal helpers *)

\* the month scan of dateComponentsFromTicks: <<month, remaining days>>
RECURSIVE MonthScan(_, _, _)
MonthScan(year, month, totalDays) ==
    IF month <= 12 /\ ~(totalDays < daysInMonth(year, month))
    THEN MonthScan(year, month + 1, totalDays - daysInMonth(year, month))
    ELSE <<month, totalDays>>

\* a slip that forgets the boundary correction
CapAt3_Missing(n) == n

\* the cap "if ( n > 3 ) n = 3" of the 100-year and 1-year quotients
CapAt3(n) == IF n > 3 THEN 3 ELSE n

dateComponentsFromTicks(ticks) ==
    LET totalDays0 == TkDays(ticks)
        num400Years == CDiv(totalDays0, DAYS_PER_400_YEARS)
        totalDays1 == CMod(totalDays0, DAYS_PER_400_YEARS)
        num100Years == CapAt3(CDiv(totalDays1, DAYS_PER_100_YEARS))
        totalDays2 == totalDays1 - num100Years * DAYS_PER_100_YEARS
        num4Years == CDiv(totalDays2, DAYS_PER_4_YEARS)
        totalDays3 == CMod(totalDays2, DAYS_PER_4_YEARS)
        numYears == CapAt3(CDiv(totalDays3, DAYS_PER_YEAR))
        totalDays4 == totalDays3 - numYears * DAYS_PER_YEAR
        year == 1 + num400Years * 400 + num100Years * 100 + num4Years * 4 + numYears
        scan == MonthScan(year, 1, totalDays4)
    IN  [year |-> year, month |-> scan[1], day |-> scan[2] + 1]

\* ticks % TICKS_PER_DAY in C++: the remainder has the sign of ticks; it is
\* held as a sign and a magnitude of s seconds and f ticks
TkTimeOfDay(t) ==
    IF t.d >= 0 \/ (t.s = 0 /\ t.f = 0)
    THEN [sign |-> 1, s |-> t.s, f |-> t.f]
    ELSE IF t.f = 0
         THEN [sign |-> -1, s |-> SECONDS_PER_DAY - t.s, f |-> 0]
         ELSE [sign |-> -1, s |-> SECONDS_PER_DAY - 1 - t.s, f |-> TICKS_PER_SECOND - t.f]

\* a decoding that takes the minutes from the whole day, not from the hour
timeComponentsFromTicks_MinutesOfDay(ticks) ==
    LET timeTicks == TkTimeOfDay(ticks)
    IN  [hour |-> timeTicks.sign * (timeTicks.s \div SECONDS_PER_HOUR),
         minute |-> timeTicks.sign * (timeTicks.s \div SECONDS_PER_MINUTE),
         second |-> timeTicks.sign * (timeTicks.s % SECONDS_PER_MINUTE),
         millisecond |-> timeTicks.sign * (timeTicks.f \div TICKS_PER_MILLISECOND)]

timeComponentsFromTicks(ticks) ==
    LET timeTicks == TkTimeOfDay(ticks)
    IN  [hour |-> timeTicks.sign * (timeTicks.s \div SECONDS_PER_HOUR),
         minute |-> timeTicks.sign * ((timeTicks.s % SECONDS_PER_HOUR) \div SECONDS_PER_MINUTE),
         second |-> timeTicks.sign * (timeTicks.s % SECONDS_PER_MINUTE),
         millisecond |-> timeTicks.sign * (timeTicks.f \div TICKS_PER_MILLISECOND)]

\* sum of daysInMonth(year, m) for m = from .. month-1
RECURSIVE DaysBeforeMonth(_, _, _)
DaysBeforeMonth(year, m, month) ==
    IF m < month
    THEN daysInMonth(year, m) + DaysBeforeMonth(year, m + 1, month)
    ELSE 0

\* a conversion that counts every fourth year as a leap year and knows no
\* century rule
dateToTicks_EveryFourth(year, month, day) ==
    Tk((year - 1) * DAYS_PER_YEAR + CDiv(year - 1, 4)
       + DaysBeforeMonth(year, 1, month) + day - 1, 0, 0)

dateToTicks(year, month, day) ==
    LET y0 == year - 1
        t1 == CDiv(y0, 400) * DAYS_PER_400_YEARS
        y1 == CMod(y0, 400)
        t2 == t1 + CDiv(y1, 100) * DAYS_PER_100_YEARS
        y2 == CMod(y1, 100)
        t3 == t2 + CDiv(y2, 4) * DAYS_PER_4_YEARS
        y3 == CMod(y2, 4)
        t4 == t3 + y3 * DAYS_PER_YEAR
        t5 == t4 + DaysBeforeMonth(year, 1, month)
        totalDays == t5 + day - 1
    IN  Tk(totalDays, 0, 0)

timeToTicks(hour, minute, second, millisecond) ==
    Tk(0,
       hour * SECONDS_PER_HOUR + minute * SECONDS_PER_MINUTE + second,
       millisecond * TICKS_PER_MILLISECOND)

\* a validation that checks the day against 31 instead of the month's length
isValidDate_Day31(year, month, day) ==
    /\ ~(year < MIN_YEAR \/ year > MAX_YEAR)
    /\ ~(month < 1 \/ month > 12)
    /\ ~(day < 1 \/ day > 31)

isValidDate(year, month, day) ==
    /\ ~(year < MIN_YEAR \/ year > MAX_YEAR)
    /\ ~(month < 1 \/ month > 12)
    /\ ~(day < 1 \/ day > daysInMonth(year, month))

isValidTime(hour, minute, second, millisecond) ==
    /\ hour >= 0 /\ hour <= HOURS_PER_DAY - 1
    /\ minute >= 0 /\ minute <= MINUTES_PER_HOUR - 1
    /\ second >= 0 /\ second <= SECONDS_PER_MINUTE - 1
    /\ millisecond >= 0 /\ millisecond <= MILLISECONDS_PER_SECOND - 1

-----------------------------------------------------------------------------
(* Strings: std::string / std::string_view as sequences of characters,    *)
(* positions counted from 0 as in the source                               *)

NPOS == -1

At(str, i) == str[i + 1]

\* str.substr( pos, count ) and str.substr( pos )
Substr(str, pos, count) ==
    LET n == IF pos + count > Len(str) THEN Len(str) - pos ELSE count
    IN  IF n <= 0 THEN <<>> ELSE SubSeq(str, pos + 1, pos + n)

SubstrFrom(str, pos) == Substr(str, pos, Len(str) - pos)

DigitChars == <<"0", "1", "2", "3", "4", "5", "6", "7", "8", "9">>

IsDigit(c) == \E i \in 1..10 : DigitChars[i] = c

DigitVal(c) == (CHOOSE i \in 1..10 : DigitChars[i] = c) - 1

\* str.find( c, from ) for one character
Find(str, c, from) ==
    IF \E i \in from..(Len(str) - 1) : At(str, i) = c
    THEN CHOOSE i \in from..(Len(str) - 1) :
             At(str, i) = c /\ \A j \in from..(i - 1) : At(str, j) # c
    ELSE NPOS

\* str.find_last_of( chars ) searching downward from position i
FindLastOfFrom(str, chars, i) ==
    IF \E k \in 0..i : At(str, k) \in chars
    THEN CHOOSE k \in 0..i :
             At(str, k) \in chars /\ \A j \in (k + 1)..i : At(str, j) \notin chars
    ELSE NPOS

FindLastOf(str, chars) == FindLastOfFrom(str, chars, Len(str) - 1)

\* str.find_first_not_of( chars )
FindFirstNotOfFrom(str, chars, i) ==
    IF \E k \in i..(Len(str) - 1) : At(str, k) \notin chars
    THEN CHOOSE k \in i..(Len(str) - 1) :
             At(str, k) \notin chars /\ \A j \in i..(k - 1) : At(str, j) \in chars
    ELSE NPOS

FindFirstNotOf(str, chars) == FindFirstNotOfFrom(str, chars, 0)

\* the first position in p .. cap that is cap or holds no digit
ScanDigitsTo(str, p, cap) ==
    IF p >= cap THEN p
    ELSE CHOOSE q \in p..cap :
             /\ q = cap \/ ~IsDigit(At(str, q))
             /\ \A j \in p..(q - 1) : IsDigit(At(str, j))

\* the loop "while ( p < end && *p >= '0' && *p <= '9' ) ++p", with a cap
\* on the number of characters taken (limit < 0: no cap)
ScanDigits(str, p, end, limit) ==
    ScanDigitsTo(str, p, IF limit >= 0 /\ p + limit < end THEN p + limit ELSE end)

INT32_MAX == 2147483647

\* value of the digits str[p .. end-1] added to acc, or -1 once it
\* exceeds INT32_MAX
RECURSIVE DigitsValue(_, _, _, _)
DigitsValue(str, p, end, acc) ==
    IF p >= end THEN acc
    ELSE LET dgt == DigitVal(At(str, p))
         IN  IF acc > (INT32_MAX - dgt) \div 10 THEN -1
             ELSE DigitsValue(str, p + 1, end, acc * 10 + dgt)

\* std::from_chars( first, last, std::int32_t& ): an optional '-', then the
\* longest run of digits.  (The one value -2^31 is reported out of range;
\* every caller rejects it either way.)
FromCharsInt(str, first, last) ==
    LET neg == first < last /\ At(str, first) = "-"
        start == IF neg THEN first + 1 ELSE first
        stop == ScanDigits(str, start, last, -1)
        mag == DigitsValue(str, start, stop, 0)
    IN  IF stop = start
        THEN [ec |-> "invalid_argument", ptr |-> first, value |-> 0]
        ELSE IF mag < 0
        THEN [ec |-> "result_out_of_range", ptr |-> stop, value |-> 0]
        ELSE [ec |-> "", ptr |-> stop, value |-> IF neg THEN -mag ELSE mag]

\* decimal digits of n >= 0
RECURSIVE Dec(_)
Dec(n) == IF n < 10 THEN <<DigitChars[n + 1]>>
          ELSE Dec(n \div 10) \o <<DigitChars[(n % 10) + 1]>>

Fill(c, n) == [i \in 1..n |-> c]

\* oss << std::setfill( '0' ) << std::setw( w ) << n
PutInt(n, w) ==
    LET body == IF n < 0 THEN <<"-">> \o Dec(-n) ELSE Dec(n)
    IN  Fill("0", w - Len(body)) \o body

\* str.find_last_not_of( '0' ), then the strip of trailing zeros
StripTrailingZeros(str) ==
    IF \E i \in 1..Len(str) : str[i] # "0"
    THEN SubSeq(str, 1, CHOOSE i \in 1..Len(str) :
                            str[i] # "0" /\ \A j \in (i + 1)..Len(str) : str[j] = "0")
    ELSE <<>>

-----------------------------------------------------------------------------
(* Natural numbers of any size as sequences of limbs in base 2^13, lowest *)
(* limb first (<<>> is zero, the last limb of a non-zero number is not 0). *)
(* Small factors and divisors k are below 2^18, so that every intermediate *)
(* value fits the 32-bit integers of the model checker.                    *)

LIMB_BITS == 13

LIMB == 2 ^ LIMB_BITS

Limb(b, i) == IF i >= 1 /\ i <= Len(b) THEN b[i] ELSE 0

RECURSIVE BTrim(_)
BTrim(b) == IF b # <<>> /\ b[Len(b)] = 0 THEN BTrim(SubSeq(b, 1, Len(b) - 1)) ELSE b

\* limbs of a natural number n < 2^31
RECURSIVE BFromNat(_)
BFromNat(n) == IF n = 0 THEN <<>> ELSE <<n % LIMB>> \o BFromNat(n \div LIMB)

\* the natural number of the limbs b (b < 2^31)
RECURSIVE BToNat(_)
BToNat(b) == IF b = <<>> THEN 0 ELSE b[1] + LIMB * BToNat(SubSeq(b, 2, Len(b)))

\* number of bits of a natural number n < 2^31
RECURSIVE NatBits(_)
NatBits(n) == IF n = 0 THEN 0 ELSE 1 + NatBits(n \div 2)

BitLen(b) == IF b = <<>> THEN 0 ELSE LIMB_BITS * (Len(b) - 1) + NatBits(b[Len(b)])

RECURSIVE BAddFrom(_, _, _, _)
BAddFrom(a, b, i, carry) ==
    IF i > Len(a) /\ i > Len(b)
    THEN (IF carry = 1 THEN <<1>> ELSE <<>>)
    ELSE LET v == Limb(a, i) + Limb(b, i) + carry
         IN  <<v % LIMB>> \o BAddFrom(a, b, i + 1, v \div LIMB)

BAdd(a, b) == BAddFrom(a, b, 1, 0)

\* a - b for a >= b
RECURSIVE BSubFrom(_, _, _, _)
BSubFrom(a, b, i, borrow) ==
    IF i > Len(a) THEN <<>>
    ELSE LET v == Limb(a, i) - Limb(b, i) - borrow
         IN  <<IF v < 0 THEN v + LIMB ELSE v>>
             \o BSubFrom(a, b, i + 1, IF v < 0 THEN 1 ELSE 0)

BSub(a, b) == BTrim(BSubFrom(a, b, 1, 0))

\* a < b, comparing from the highest limb down
RECURSIVE BLessFrom(_, _, _)
BLessFrom(a, b, i) ==
    IF i < 1 THEN FALSE
    ELSE IF Limb(a, i) # Limb(b, i) THEN Limb(a, i) < Limb(b, i)
    ELSE BLessFrom(a, b, i - 1)

BLess(a, b) == BLessFrom(a, b, IF Len(a) > Len(b) THEN Len(a) ELSE Len(b))

\* a * k
RECURSIVE BMulFrom(_, _, _, _)
BMulFrom(a, k, i, carry) ==
    IF i > Len(a) THEN BFromNat(carry)
    ELSE LET v == a[i] * k + carry
         IN  <<v % LIMB>> \o BMulFrom(a, k, i + 1, v \div LIMB)

BMulSmall(a, k) == BTrim(BMulFrom(a, k, 1, 0))

\* quotient and remainder of a by k > 0, long division from the highest
\* limb: q holds the quotient limbs found so far, rem the remainder
RECURSIVE BDivFrom(_, _, _, _, _)
BDivFrom(a, k, i, rem, q) ==
    IF i < 1 THEN [q |-> BTrim(q), r |-> rem]
    ELSE LET v == rem * LIMB + a[i]
         IN  BDivFrom(a, k, i - 1, v % k, <<v \div k>> \o q)

BDivSmall(a, k) == BDivFrom(a, k, Len(a), 0, <<>>)

\* a * 2^n
BShl(a, n) ==
    IF a = <<>> \/ n <= 0 THEN a
    ELSE [i \in 1..(n \div LIMB_BITS) |-> 0] \o BMulSmall(a, 2 ^ (n % LIMB_BITS))

\* floor( a / 2^n ) and whether the discarded part is non-zero
BShr(a, n) ==
    IF n <= 0 THEN [q |-> a, sticky |-> FALSE]
    ELSE LET drop == IF n \div LIMB_BITS > Len(a) THEN Len(a) ELSE n \div LIMB_BITS
             d == BDivSmall(SubSeq(a, drop + 1, Len(a)), 2 ^ (n % LIMB_BITS))
         IN  [q |-> d.q, sticky |-> d.r # 0 \/ \E i \in 1..drop : a[i] # 0]

-----------------------------------------------------------------------------
(* IEEE 754 binary64 ("double"): the record [neg, m, e] is the value       *)
(* (-1)^neg * m * 2^e with m a 53-bit number, or zero when m = <<>>.       *)
(* Every operation rounds its exact result to nearest, ties to even.       *)
(* Subnormals, infinities and NaN lie outside the values modelled.         *)

DOUBLE_MANT_BITS == 53

DZero == [neg |-> FALSE, m |-> <<>>, e |-> 0]

\* the double nearest to (x + t) * 2^e, where x is a natural number and
\* sticky tells whether the discarded part t (0 <= t < 1) is non-zero
\* (x has more than DOUBLE_MANT_BITS bits whenever sticky holds)
DRound(neg, x, e, sticky) ==
    LET \* m1: the significand after rounding, of exponent e2
        Carried(e2, m1) ==
            IF BitLen(m1) > DOUBLE_MANT_BITS
            THEN [neg |-> neg, m |-> BDivSmall(m1, 2).q, e |-> e2 + 1]
            ELSE [neg |-> neg, m |-> m1, e |-> e2]
        \* half: the kept bits (q) and the guard bit (r); st: the sticky bit
        Nearest(e2, half, st) ==
            Carried(e2, IF half.r = 1 /\ (st \/ half.q[1] % 2 = 1)
                        THEN BAdd(half.q, <<1>>) ELSE half.q)
        \* low: x without the bits below the guard bit
        Guarded(e2, low) == Nearest(e2, BDivSmall(low.q, 2), sticky \/ low.sticky)
        Sized(len) ==
            IF len = 0 THEN DZero
            ELSE IF len <= DOUBLE_MANT_BITS
            THEN [neg |-> neg,
                  m |-> BShl(x, DOUBLE_MANT_BITS - len),
                  e |-> e - (DOUBLE_MANT_BITS - len)]
            ELSE Guarded(e + (len - DOUBLE_MANT_BITS),
                         BShr(x, len - DOUBLE_MANT_BITS - 1))
    IN  Sized(BitLen(x))

\* static_cast<double>( n ) for an integer |n| < 2^31
DFromInt(n) == DRound(n < 0, BFromNat(IF n < 0 THEN -n ELSE n), 0, FALSE)

\* a + b
DAdd(a, b) ==
    LET \* xa * 2^emin and xb * 2^emin are the magnitudes of a and b
        Aligned(xa, xb, emin) ==
            IF a.neg = b.neg THEN DRound(a.neg, BAdd(xa, xb), emin, FALSE)
            ELSE IF BLess(xa, xb) THEN DRound(b.neg, BSub(xb, xa), emin, FALSE)
            ELSE DRound(a.neg, BSub(xa, xb), emin, FALSE)
        Shifted(emin) == Aligned(BShl(a.m, a.e - emin), BShl(b.m, b.e - emin), emin)
    IN  IF a.m = <<>> THEN b
        ELSE IF b.m = <<>> THEN a
        ELSE Shifted(IF a.e < b.e THEN a.e ELSE b.e)

\* -a
DNeg(a) == IF a.m = <<>> THEN a ELSE [a EXCEPT !.neg = ~a.neg]

\* a * c for the constant c = k1 * k2, a double the source multiplies by
\* (c is an integer below 2^53, hence exact as a double)
DMulConst(a, k1, k2) ==
    DRound(a.neg, BMulSmall(BMulSmall(a.m, k1), k2), a.e, FALSE)

\* static_cast<std::int64_t>( a ): truncation toward zero, as a tick record
\* (the magnitude is below 2^63 for every value modelled)
DToTicks(a) ==
    LET Days(byDay, frac) ==
            IF a.neg THEN Tk(-BToNat(byDay.q), -byDay.r, -frac)
            ELSE Tk(BToNat(byDay.q), byDay.r, frac)
        Seconds(bySecond, fracLow) ==
            Days(BDivSmall(bySecond.q, SECONDS_PER_DAY),
                 bySecond.r * TICKS_PER_MILLISECOND + fracLow)
        Millis(byMilli) ==
            Seconds(BDivSmall(byMilli.q, MILLISECONDS_PER_SECOND), byMilli.r)
    IN  Millis(BDivSmall(IF a.e >= 0 THEN BShl(a.m, a.e) ELSE BShr(a.m, -a.e).q,
                         TICKS_PER_MILLISECOND))

\* the natural number written by the digits str[p .. end-1], continuing acc
\* (four digits, and below four powers of ten, are taken in one step)
RECURSIVE BFromDigits(_, _, _, _)
BFromDigits(str, p, end, acc) ==
    IF p >= end THEN acc
    ELSE IF end - p <= 4
    THEN BAdd(BMulSmall(acc, 10 ^ (end - p)), BFromNat(DigitsValue(str, p, end, 0)))
    ELSE BFromDigits(str, p + 4, end,
                     BAdd(BMulSmall(acc, 10 ^ 4),
                          BFromNat(DigitsValue(str, p, p + 4, 0))))

\* x / 10^k with the discarded remainders recorded: [q, sticky]
RECURSIVE BDivPow10(_, _, _)
BDivPow10(x, k, sticky) ==
    IF k = 0 THEN [q |-> x, sticky |-> sticky]
    ELSE IF k <= 4
    THEN [q |-> BDivSmall(x, 10 ^ k).q, sticky |-> sticky \/ BDivSmall(x, 10 ^ k).r # 0]
    ELSE BDivPow10(BDivSmall(x, 10 ^ 4).q, k - 4,
                   sticky \/ BDivSmall(x, 10 ^ 4).r # 0)

\* x * 10^k
RECURSIVE BMulPow10(_, _)
BMulPow10(x, k) ==
    IF k <= 4 THEN BMulSmall(x, 10 ^ k)
    ELSE BMulPow10(BMulSmall(x, 10 ^ 4), k - 4)

\* the double nearest to digits * 10^scale
DFromDecimal(neg, digits, scale) ==
    LET Scaled(sh, scaled) == DRound(neg, scaled.q, -sh, scaled.sticky)
        Divided(sh) == Scaled(sh, BDivPow10(BShl(digits, sh), -scale, FALSE))
    IN  IF scale >= 0 THEN DRound(neg, BMulPow10(digits, scale), 0, FALSE)
        ELSE Divided(DOUBLE_MANT_BITS + 3 + 4 * (-scale))

\* the exponent part at str[p .. last-1]: 'e' or 'E', an optional sign and
\* at least one digit; [ptr, exp], with ptr = p when there is none
ScanExponent(str, p, last) ==
    LET Digits(negative, from, to) ==
            IF p < last /\ At(str, p) \in {"e", "E"} /\ to > from
            THEN [ptr |-> to,
                  exp |-> IF negative THEN -DigitsValue(str, from, to, 0)
                          ELSE DigitsValue(str, from, to, 0)]
            ELSE [ptr |-> p, exp |-> 0]
        Signed(negative, from) == Digits(negative, from, ScanDigits(str, from, last, -1))
    IN  IF p + 1 < last /\ At(str, p + 1) \in {"+", "-"}
        THEN Signed(At(str, p + 1) = "-", p + 2)
        ELSE Signed(FALSE, p + 1)

\* std::from_chars( first, last, double& ) on str[first .. last-1] in the
\* general format [-]digits[.digits][e[+-]digits]: the correctly rounded
\* value and the position after the last character taken.  ("inf", "nan"
\* and exponents that leave the range of normal doubles are forms no
\* modelled input uses.)
FromCharsDouble(str, first, last) ==
    LET Value(neg, digits, nFrac, expo) ==
            [ec |-> "", ptr |-> expo.ptr,
             value |-> DFromDecimal(neg, digits, expo.exp - nFrac)]
        \* the integer digits are str[start .. intEnd-1]; fracEnd is intEnd
        \* without a '.', else the end of the digits after it
        Mantissa(start, intEnd, fracEnd) ==
            IF intEnd = start /\ fracEnd <= intEnd + 1
            THEN [ec |-> "invalid_argument", ptr |-> first, value |-> DZero]
            ELSE Value(start > first,
                       BFromDigits(str, intEnd + 1, fracEnd,
                                   BFromDigits(str, start, intEnd, <<>>)),
                       IF fracEnd > intEnd THEN fracEnd - intEnd - 1 ELSE 0,
                       ScanExponent(str, fracEnd, last))
        Integer(start, intEnd) ==
            Mantissa(start, intEnd,
                     IF intEnd < last /\ At(str, intEnd) = "."
                     THEN ScanDigits(str, intEnd + 1, last, -1) ELSE intEnd)
        Sign(start) == Integer(start, ScanDigits(str, start, last, -1))
    IN  Sign(IF first < last /\ At(str, first) = "-" THEN first + 1 ELSE first)

-----------------------------------------------------------------------------
(* Shared defaults *)

NoCivil == [year |-> 0, month |-> 0, day |-> 0,
            hour |-> 0, minute |-> 0, second |-> 0, millisecond |-> 0]

NoDate == [year |-> 0, month |-> 0, day |-> 0]

NoDto == [dateTime |-> TkZero, offset |-> TkZero]

-----------------------------------------------------------------------------
(* Calendar engine: encode a civil date, then decode the ticks *)

\* years around which the 4/100/400-year cycles turn, and the range ends
CalAnchors == {1, 4, 100, 400, 1600, 1900, 2000, 2024, 9999}

YearSpan == 1

CalYears ==
    {y \in MIN_YEAR..MAX_YEAR : \E a \in CalAnchors : y - a <= YearSpan /\ a - y <= YearSpan}

CalInit ==
    /\ op = "init"
    /\ \E y \in CalYears, m \in 1..12 :
         \E d \in 1..daysInMonth(y, m) :
            civ = [NoCivil EXCEPT !.year = y, !.month = m, !.day = d]
    /\ dt = TkZero
    /\ dec = NoDate
    /\ ts = TkZero
    /\ dto = NoDto
    /\ text = <<>>
    /\ ok = "none"
    /\ prev = TkZero
    /\ aux = 0

CalEncode ==
    /\ op = "init"
    /\ dt' = dateToTicks(civ.year, civ.month, civ.day)
    /\ op' = "dateToTicks"
    /\ UNCHANGED <<civ, dec, ts, dto, text, ok, prev, aux>>

CalDecode ==
    /\ op = "dateToTicks"
    /\ dec' = dateComponentsFromTicks(dt)
    /\ op' = "dateComponentsFromTicks"
    /\ UNCHANGED <<civ, dt, ts, dto, text, ok, prev, aux>>

CalNext == CalEncode \/ CalDecode

SpecCal == CalInit /\ [][CalNext]_vars

\* C1: every valid civil date (y, m, d) converted to ticks by dateToTicks
\* and back by dateComponentsFromTicks comes back as exactly (y, m, d).
C1_DateRoundTrip ==
    op = "dateComponentsFromTicks" =>
        dec = [year |-> civ.year, month |-> civ.month, day |-> civ.day]

\* the last day of a leap year at a 400-year boundary has been round-tripped
C1_Witness ==
    /\ op = "dateComponentsFromTicks"
    /\ civ.year = 2000 /\ civ.month = 12 /\ civ.day = 31
    /\ dt = [d |-> 730484, s |-> 0, f |-> 0]

-----------------------------------------------------------------------------
(* DateTime (Instant): construction, factories and TimeSpan arithmetic *)

\* DateTime::DateTime() and DateTime::DateTime( std::int64_t ticks )
DateTimeDefault == MIN_DATETIME_TICKS

DateTimeFromTicks(ticks) == ticks

\* DateTime::DateTime( year, month, day )
DateTimeFromDate(year, month, day) ==
    IF ~isValidDate(year, month, day)
    THEN MIN_DATETIME_TICKS
    ELSE dateToTicks(year, month, day)

\* DateTime::DateTime( year, month, day, hour, minute, second )
DateTimeFromDateAndTime(year, month, day, hour, minute, second) ==
    IF ~isValidDate(year, month, day) \/ ~isValidTime(hour, minute, second, 0)
    THEN MIN_DATETIME_TICKS
    ELSE TkAdd(dateToTicks(year, month, day), timeToTicks(hour, minute, second, 0))

\* DateTime::DateTime( year, month, day, hour, minute, second, millisecond )
DateTimeFromCivil(c) ==
    IF ~isValidDate(c.year, c.month, c.day)
       \/ ~isValidTime(c.hour, c.minute, c.second, c.millisecond)
    THEN MIN_DATETIME_TICKS
    ELSE TkAdd(dateToTicks(c.year, c.month, c.day),
               timeToTicks(c.hour, c.minute, c.second, c.millisecond))

\* DateTime::DateTime( std::chrono::system_clock::time_point ); sinceEpoch is
\* the time point's distance from the Unix epoch after duration_cast to ticks
DateTimeFromChrono(sinceEpoch) ==
    LET t == TkAdd(UNIX_EPOCH_TICKS, sinceEpoch)
    IN  IF TkLess(t, MIN_DATETIME_TICKS) THEN MIN_DATETIME_TICKS
        ELSE IF TkLess(MAX_DATETIME_TICKS, t) THEN MAX_DATETIME_TICKS
        ELSE t

\* DateTime::min(), max(), epoch(), fromEpochSeconds( seconds )
DateTimeMin == DateTimeFromTicks(MIN_DATETIME_TICKS)

DateTimeMax == DateTimeFromTicks(MAX_DATETIME_TICKS)

DateTimeEpoch == DateTimeFromTicks(UNIX_EPOCH_TICKS)

DateTimeFromEpochSeconds(seconds) ==
    DateTimeFromTicks(TkAdd(UNIX_EPOCH_TICKS, Tk(0, seconds, 0)))

\* DateTime::operator+( TimeSpan ), operator-( TimeSpan ), operator-( DateTime )
DateTimePlus(ticks, duration) == DateTimeFromTicks(TkAdd(ticks, duration))

DateTimeMinus(ticks, duration) == DateTimeFromTicks(TkSub(ticks, duration))

\* a difference taken the wrong way round
DateTimeDiff_Reversed(ticks, other) == TkSub(other, ticks)

DateTimeDiff(ticks, other) == TkSub(ticks, other)

\* DateTime::isValid()
DateTimeIsValid(ticks) ==
    TkLeq(MIN_DATETIME_TICKS, ticks) /\ TkLeq(ticks, MAX_DATETIME_TICKS)

\* the longest chain of arithmetic operators applied to one value
MaxArith == 2

\* raw tick counts, time points and durations handed to the interface
InstantTicks ==
    {Tk(0, 0, -1), TkZero, Tk(0, 0, 1), UNIX_EPOCH_TICKS,
     MAX_DATETIME_TICKS, Tk(MAX_DATETIME_TICKS.d + 1, 0, 0)}

InstantTimePoints ==
    {TkZero, Tk(19000, 3600, 1234567), Tk(-20000, 0, 0),
     Tk(-UNIX_EPOCH_TICKS.d - 1, 0, 0), Tk(MAX_DATETIME_TICKS.d, 0, 0)}

InstantSpans ==
    {Tk(0, 0, 1), Tk(0, 0, -1), Tk(1, 0, 0), Tk(-1, 0, 0), Tk(0, 3600, 0)}

InstantCivils ==
    {[NoCivil EXCEPT !.year = 1, !.month = 1, !.day = 1],
     [NoCivil EXCEPT !.year = 2024, !.month = 2, !.day = 29,
                     !.hour = 23, !.minute = 59, !.second = 59, !.millisecond = 999],
     [NoCivil EXCEPT !.year = 9999, !.month = 12, !.day = 31,
                     !.hour = 23, !.minute = 59, !.second = 59, !.millisecond = 999],
     [NoCivil EXCEPT !.year = 2024, !.month = 13, !.day = 45],
     [NoCivil EXCEPT !.year = 10000, !.month = 1, !.day = 1]}

InstantInit ==
    /\ op = "DateTime()"
    /\ dt = DateTimeDefault
    /\ civ = NoCivil
    /\ dec = NoDate
    /\ ts = TkZero
    /\ dto = NoDto
    /\ text = <<>>
    /\ ok = "none"
    /\ prev = TkZero
    /\ aux = 0

\* a fresh value replaces the one under test
InstantFromTicks ==
    /\ \E t \in InstantTicks : dt' = DateTimeFromTicks(t)
    /\ op' = "DateTime(ticks)"
    /\ aux' = 0
    /\ UNCHANGED <<civ, dec, ts, dto, text, ok, prev>>

InstantFromCivil ==
    /\ \E c \in InstantCivils :
         /\ civ' = c
         /\ dt' = DateTimeFromCivil(c)
    /\ op' = "DateTime(civil)"
    /\ aux' = 0
    /\ UNCHANGED <<dec, ts, dto, text, ok, prev>>

InstantFromChrono ==
    /\ \E p \in InstantTimePoints : dt' = DateTimeFromChrono(p)
    /\ op' = "DateTime(time_point)"
    /\ aux' = 0
    /\ UNCHANGED <<civ, dec, ts, dto, text, ok, prev>>

InstantFactory ==
    /\ \/ dt' = DateTimeMin
       \/ dt' = DateTimeMax
       \/ dt' = DateTimeEpoch
       \/ \E sec \in {-1, 0, 86400} : dt' = DateTimeFromEpochSeconds(sec)
    /\ op' = "factory"
    /\ aux' = 0
    /\ UNCHANGED <<civ, dec, ts, dto, text, ok, prev>>

\* operator+ and operator+= (the result replaces the value under test)
InstantPlus ==
    /\ aux < MaxArith
    /\ \E d \in InstantSpans :
         /\ ts' = d
         /\ dt' = DateTimePlus(dt, d)
    /\ prev' = dt
    /\ op' = "operator+"
    /\ aux' = aux + 1
    /\ UNCHANGED <<civ, dec, dto, text, ok>>

\* operator- and operator-=
InstantMinus ==
    /\ aux < MaxArith
    /\ \E d \in InstantSpans :
         /\ ts' = d
         /\ dt' = DateTimeMinus(dt, d)
    /\ prev' = dt
    /\ op' = "operator-"
    /\ aux' = aux + 1
    /\ UNCHANGED <<civ, dec, dto, text, ok>>

InstantNext ==
    \/ InstantFromTicks
    \/ InstantFromCivil
    \/ InstantFromChrono
    \/ InstantFactory
    \/ InstantPlus
    \/ InstantMinus

SpecInstant == InstantInit /\ [][InstantNext]_vars

\* C2: every DateTime obtainable through construction, the factories and
\* TimeSpan arithmetic satisfies 0 <= ticks <= MAX_DATETIME_TICKS.
C2_TicksInRange ==
    TkLeq(MIN_DATETIME_TICKS, dt) /\ TkLeq(dt, MAX_DATETIME_TICKS)

-----------------------------------------------------------------------------
(* DateTimeOffset (OffsetInstant): the pair [dateTime, offset] *)

\* DateTimeOffset::DateTimeOffset() and DateTimeOffset( dateTime, offset )
DateTimeOffsetDefault == [dateTime |-> DateTimeMin, offset |-> TkZero]

DateTimeOffsetFrom(dateTime, offset) == [dateTime |-> dateTime, offset |-> offset]

\* DateTimeOffset::utcTicks()
utcTicks(x) == TkSub(x.dateTime, x.offset)

\* DateTimeOffset::utcDateTime()
utcDateTime(x) == DateTimeFromTicks(utcTicks(x))

\* a comparison of the local readings alone
DateTimeOffsetEquals_LocalOnly(a, b) == a.dateTime = b.dateTime

\* DateTimeOffset::operator==
DateTimeOffsetEquals(a, b) == utcTicks(a) = utcTicks(b)

\* DateTimeOffset::operator<=>
DateTimeOffsetCompare(a, b) ==
    LET thisUtc == utcTicks(a)
        otherUtc == utcTicks(b)
    IN  IF TkLess(thisUtc, otherUtc) THEN "less"
        ELSE IF TkLess(otherUtc, thisUtc) THEN "greater"
        ELSE "equal"

\* DateTimeOffset::equalsExact
equalsExact(a, b) == a.dateTime = b.dateTime /\ a.offset = b.offset

\* a conversion that swaps the offset and keeps the wall-clock reading
toOffset_KeepLocal(x, newOffset) == DateTimeOffsetFrom(x.dateTime, newOffset)

\* DateTimeOffset::toOffset
toOffset(x, newOffset) ==
    LET utcTime == utcDateTime(x)
    IN  DateTimeOffsetFrom(DateTimePlus(utcTime, newOffset), newOffset)

\* internal::isValidOffset: |offset| <= 14 hours
MAX_OFFSET_TICKS == Tk(0, 14 * 60 * 60, 0)

\* the limits themselves left out
isValidOffset_Exclusive(offset) ==
    TkLess(TkNeg(MAX_OFFSET_TICKS), offset) /\ TkLess(offset, MAX_OFFSET_TICKS)

isValidOffset(offset) ==
    TkLeq(TkNeg(MAX_OFFSET_TICKS), offset) /\ TkLeq(offset, MAX_OFFSET_TICKS)

\* local readings and offsets handed to the interface (the last offsets lie
\* outside +/-14:00, the last readings outside the DateTime range)
OffsetLocals ==
    {TkZero, Tk(0, 36000, 0), Tk(739181, 54000, 0), Tk(739181, 36000, 0),
     Tk(739181, 54000, 1), MAX_DATETIME_TICKS,
     Tk(0, 0, -1), Tk(MAX_DATETIME_TICKS.d + 1, 0, 0)}

OffsetSpans ==
    {TkZero, Tk(0, 18000, 0), Tk(0, -18000, 0), Tk(0, 19800, 0),
     MAX_OFFSET_TICKS, TkNeg(MAX_OFFSET_TICKS),
     Tk(0, 50400, 1), Tk(-1, 0, 0)}

\* no comparison made yet
NoCompare == [other |-> NoDto, eq |-> FALSE, ord |-> "none"]

OffsetInit ==
    /\ op = "DateTimeOffset()"
    /\ dto = DateTimeOffsetDefault
    /\ prev = NoDto
    /\ aux = NoCompare
    /\ ts = TkZero
    /\ dt = TkZero
    /\ civ = NoCivil
    /\ dec = NoDate
    /\ text = <<>>
    /\ ok = "none"

OffsetConstruct ==
    /\ \E i \in OffsetLocals, o \in OffsetSpans :
         dto' = DateTimeOffsetFrom(DateTimeFromTicks(i), o)
    /\ op' = "DateTimeOffset(dateTime, offset)"
    /\ prev' = NoDto
    /\ aux' = NoCompare
    /\ ts' = TkZero
    /\ UNCHANGED <<dt, civ, dec, text, ok>>

\* a == b and a <=> b with a the value under test
OffsetCompare ==
    /\ \E i \in OffsetLocals, o \in OffsetSpans :
         LET b == DateTimeOffsetFrom(DateTimeFromTicks(i), o)
         IN  aux' = [other |-> b,
                     eq |-> DateTimeOffsetEquals(dto, b),
                     ord |-> DateTimeOffsetCompare(dto, b)]
    /\ op' = "compare"
    /\ prev' = NoDto
    /\ ts' = TkZero
    /\ UNCHANGED <<dto, dt, civ, dec, text, ok>>

OffsetToOffset ==
    /\ \E o2 \in OffsetSpans :
         /\ ts' = o2
         /\ dto' = toOffset(dto, o2)
    /\ prev' = dto
    /\ op' = "toOffset"
    /\ aux' = NoCompare
    /\ UNCHANGED <<dt, civ, dec, text, ok>>

OffsetNext == OffsetConstruct \/ OffsetCompare \/ OffsetToOffset

SpecOffset == OffsetInit /\ [][OffsetNext]_vars

\* exact (unbounded) sum of two tick counts, used to state the claims
\* about UTC ticks without going through utcTicks()
ExactSum(a, b) == Tk(a.d + b.d, a.s + b.s, a.f + b.f)

\* local(a) - offset(a) < local(b) - offset(b), in exact arithmetic
UtcBefore(a, b) ==
    TkLess(ExactSum(a.dateTime, b.offset), ExactSum(b.dateTime, a.offset))

\* C3: a == b holds exactly when local(a) - offset(a) = local(b) - offset(b),
\* and a <=> b is the order of these UTC tick counts, whatever the local
\* and offset fields are.
C3_CompareByUtc ==
    op = "compare" =>
        /\ aux.eq <=> (~UtcBefore(dto, aux.other) /\ ~UtcBefore(aux.other, dto))
        /\ (aux.ord = "less") <=> UtcBefore(dto, aux.other)
        /\ (aux.ord = "greater") <=> UtcBefore(aux.other, dto)
        /\ (aux.ord = "equal") <=> aux.eq

\* 15:00 at +05:00 has been compared with 10:00 at +00:00 and found equal
C3_Witness ==
    /\ op = "compare"
    /\ dto = [dateTime |-> Tk(739181, 54000, 0), offset |-> Tk(0, 18000, 0)]
    /\ aux.other = [dateTime |-> Tk(739181, 36000, 0), offset |-> TkZero]
    /\ aux.eq
    /\ aux.ord = "equal"

\* C4: for an in-range DateTime i and offsets o1, o2 within +/-14:00,
\* DateTimeOffset(i, o1).toOffset(o2) carries offset o2 and denotes the
\* same UTC tick count as DateTimeOffset(i, o1).
C4_ToOffsetKeepsUtc ==
    (/\ op = "toOffset"
     /\ DateTimeIsValid(prev.dateTime)
     /\ isValidOffset(prev.offset)
     /\ isValidOffset(ts))
    => /\ dto.offset = ts
       /\ ExactSum(dto.dateTime, prev.offset) = ExactSum(prev.dateTime, dto.offset)

\* 15:00 at +05:00 has been converted to -14:00
C4_Witness ==
    /\ op = "toOffset"
    /\ prev = [dateTime |-> Tk(739181, 54000, 0), offset |-> Tk(0, 18000, 0)]
    /\ ts = TkNeg(MAX_OFFSET_TICKS)
    /\ dto = [dateTime |-> Tk(739180, 72000, 0), offset |-> Tk(-1, 36000, 0)]

-----------------------------------------------------------------------------
(* DateTime: ISO 8601 formatting and parsing *)

\* DateTime::toString( Format ) for Iso8601Basic, Iso8601Extended,
\* DateOnly and TimeOnly
DateText(c) ==
    PutInt(c.year, 4) \o <<"-">> \o PutInt(c.month, 2) \o <<"-">> \o PutInt(c.day, 2)

ClockText(t) ==
    PutInt(t.hour, 2) \o <<":">> \o PutInt(t.minute, 2) \o <<":">> \o PutInt(t.second, 2)

\* the 7-digit fraction with trailing zeros stripped, "0" when none is left
FractionText(stripped) == IF stripped = <<>> THEN <<"0">> ELSE stripped

FractionOfSecond(rem) == rem.sign * rem.f

DateTimeToString(ticks, format) ==
    CASE format = "Iso8601Basic" ->
           DateText(dateComponentsFromTicks(ticks)) \o <<"T">>
           \o ClockText(timeComponentsFromTicks(ticks)) \o <<"Z">>
      [] format = "Iso8601Extended" ->
           DateText(dateComponentsFromTicks(ticks)) \o <<"T">>
           \o ClockText(timeComponentsFromTicks(ticks)) \o <<".">>
           \o FractionText(StripTrailingZeros(
                  PutInt(FractionOfSecond(TkTimeOfDay(ticks)), 7)))
           \o <<"Z">>
      [] format = "DateOnly" -> DateText(dateComponentsFromTicks(ticks))
      [] format = "TimeOnly" -> ClockText(timeComponentsFromTicks(ticks))

\* DateTime::toIso8601Extended
toIso8601Extended(ticks) == DateTimeToString(ticks, "Iso8601Extended")

\* one "digits, then from_chars" field of the time part, starting at p:
\* the from_chars result over the run of digits at p
TimeField(str, p) == FromCharsInt(str, p, ScanDigits(str, p, Len(str), -1))

\* a parser that takes the fraction digits as a tick count without padding
PadFraction_NoPad(fractionValue, fractionDigits) == fractionValue

\* "while ( fractionDigits < 7 ) fractionValue *= 10"
RECURSIVE PadFraction(_, _)
PadFraction(fractionValue, fractionDigits) ==
    IF fractionDigits < 7
    THEN PadFraction(fractionValue * 10, fractionDigits + 1)
    ELSE fractionValue

\* the fraction digits str[fracStart .. fracEnd-1] in ticks
FractionValue(str, fracStart, fracEnd) ==
    IF fracEnd > fracStart
    THEN PadFraction(FromCharsInt(str, fracStart, fracEnd).value, fracEnd - fracStart)
    ELSE 0

\* the fractional seconds after the seconds field ending at p, in ticks
FractionTicks(str, p) ==
    IF p < Len(str) /\ At(str, p) = "."
    THEN FractionValue(str, p + 1, ScanDigits(str, p + 1, Len(str), 7))
    ELSE 0

\* the time part "THH:mm:ss[.f]" at position p (the 'T'), if there is
\* one: [ok, hour, minute, second, fractionalTicks]
NoTime == [ok |-> TRUE, hour |-> 0, minute |-> 0, second |-> 0, fractionalTicks |-> 0]

BadTime == [NoTime EXCEPT !.ok = FALSE]

\* the seconds field r6 and what follows it
ParseSecondField(str, hour, minute, r6) ==
    IF r6.ec # "" THEN BadTime
    ELSE [ok |-> TRUE, hour |-> hour, minute |-> minute, second |-> r6.value,
          fractionalTicks |-> FractionTicks(str, r6.ptr)]

\* the minutes field r5, then ':' and the seconds
ParseMinuteField(str, hour, r5) ==
    IF r5.ec # "" THEN BadTime
    ELSE IF r5.ptr >= Len(str) \/ At(str, r5.ptr) # ":" THEN BadTime
    ELSE ParseSecondField(str, hour, r5.value, TimeField(str, r5.ptr + 1))

\* the hours field r4, then ':' and the minutes
ParseHourField(str, r4) ==
    IF r4.ec # "" THEN BadTime
    ELSE IF r4.ptr >= Len(str) \/ At(str, r4.ptr) # ":" THEN BadTime
    ELSE ParseMinuteField(str, r4.value, TimeField(str, r4.ptr + 1))

ParseTimePart(str, p) ==
    IF ~(p < Len(str) /\ At(str, p) = "T") THEN NoTime
    ELSE ParseHourField(str, TimeField(str, p + 1))

\* the string without its last character when that is 'Z'
StripZ(iso8601String) ==
    IF iso8601String[Len(iso8601String)] = "Z"
    THEN SubSeq(iso8601String, 1, Len(iso8601String) - 1)
    ELSE iso8601String

\* the cut made at any last '+' or '-', those of the date included
StripOffset_AnyPosition(s1, tzPos) ==
    IF tzPos # NPOS THEN Substr(s1, 0, tzPos) ELSE s1

\* the string cut at tzPos, the last '+' or '-', when that lies past the date
StripOffset(s1, tzPos) ==
    IF tzPos # NPOS /\ tzPos > 10 THEN Substr(s1, 0, tzPos) ELSE s1

\* the string after "Remove trailing 'Z'" and "Remove timezone offset"
StripZoneSuffix(iso8601String) ==
    StripOffset(StripZ(iso8601String), FindLastOf(StripZ(iso8601String), {"+", "-"}))

\* a parser that clears the caller's value before it starts
DateTimeParseFail_ClearFirst(str, result) ==
    [ret |-> FALSE, result |-> MIN_DATETIME_TICKS]

\* the failure return of fromString: the caller's value is not written
DateTimeParseFail(str, result) == [ret |-> FALSE, result |-> result]

\* a validation step that accepts whatever was read
FieldsValid_Skip(year, month, day, tm) == TRUE

\* "Validate components" of fromString
FieldsValid(year, month, day, tm) ==
    isValidDate(year, month, day) /\ isValidTime(tm.hour, tm.minute, tm.second, 0)

\* "Validate components", then "Calculate ticks" of fromString
ParseAssemble(whole, result, year, month, day, tm) ==
    IF ~tm.ok THEN DateTimeParseFail(whole, result)
    ELSE IF ~FieldsValid(year, month, day, tm) THEN DateTimeParseFail(whole, result)
    ELSE [ret |-> TRUE,
          result |-> DateTimeFromTicks(
              TkAdd(TkAdd(dateToTicks(year, month, day),
                          timeToTicks(tm.hour, tm.minute, tm.second, 0)),
                    Tk(0, 0, tm.fractionalTicks)))]

\* the day field r3, then the optional time part
ParseDayField(whole, result, str, year, month, r3) ==
    IF r3.ec # "" THEN DateTimeParseFail(whole, result)
    ELSE ParseAssemble(whole, result, year, month, r3.value, ParseTimePart(str, r3.ptr))

\* the month field r2, then '-' and the day
ParseMonthField(whole, result, str, year, r2) ==
    IF r2.ec # "" THEN DateTimeParseFail(whole, result)
    ELSE IF r2.ptr >= Len(str) \/ At(str, r2.ptr) # "-" THEN DateTimeParseFail(whole, result)
    ELSE ParseDayField(whole, result, str, year, r2.value,
                       FromCharsInt(str, r2.ptr + 1,
                                    ScanDigits(str, r2.ptr + 1, Len(str), -1)))

\* the year field r1, then '-' and the month up to the next '-' at dashPos
ParseYearField(whole, result, str, r1, dashPos) ==
    IF r1.ec # "" \/ r1.ptr # 4 THEN DateTimeParseFail(whole, result)
    ELSE IF r1.ptr >= Len(str) \/ At(str, r1.ptr) # "-" THEN DateTimeParseFail(whole, result)
    ELSE IF dashPos = NPOS THEN DateTimeParseFail(whole, result)
    ELSE ParseMonthField(whole, result, str, r1.value,
                         FromCharsInt(str, r1.ptr + 1, dashPos))

\* the fields of str, the string without its zone suffix
ParseFields(whole, result, str) ==
    IF Len(str) < 4 THEN DateTimeParseFail(whole, result)
    ELSE ParseYearField(whole, result, str, FromCharsInt(str, 0, 4), Find(str, "-", 5))

\* bool DateTime::fromString( std::string_view, DateTime& result ):
\* [ret, result] with result the caller's value after the call
DateTimeFromString(iso8601String, result) ==
    IF Len(iso8601String) < 10 THEN DateTimeParseFail(iso8601String, result)
    ELSE ParseFields(iso8601String, result, StripZoneSuffix(iso8601String))

\* the string constructor's outcome for the parse result r
CtorOutcome(r) ==
    IF ~r.ret THEN [thrown |-> "std::invalid_argument", ticks |-> TkZero]
    ELSE [thrown |-> "", ticks |-> r.result]

\* the optional overload's outcome for the parse result r
OptOutcome(r) ==
    IF r.ret THEN [has_value |-> TRUE, value |-> r.result]
    ELSE [has_value |-> FALSE, value |-> TkZero]

\* DateTime::DateTime( std::string_view ): the constructed ticks, or the
\* std::invalid_argument it throws
DateTimeFromStringCtor(iso8601String) ==
    CtorOutcome(DateTimeFromString(iso8601String, DateTimeDefault))

\* std::optional<DateTime> DateTime::fromString( std::string_view )
DateTimeFromStringOpt(iso8601String) ==
    OptOutcome(DateTimeFromString(iso8601String, DateTimeDefault))

-----------------------------------------------------------------------------
(* Civil construction: the three numeric constructors on edge components *)

\* the widest step outside a component's range that the inputs take
CivilSlack == 1

CivilYears == {MIN_YEAR - s : s \in 1..CivilSlack} \cup {MAX_YEAR + s : s \in 1..CivilSlack}
                \cup {MIN_YEAR, 1900, 2000, 2023, 2024, MAX_YEAR}

CivilMonths == {1 - s : s \in 1..CivilSlack} \cup {12 + s : s \in 1..CivilSlack}
                 \cup {1, 2, 4, 12}

CivilDays == {1 - s : s \in 1..CivilSlack} \cup {31 + s : s \in 1..CivilSlack}
               \cup {1, 28, 29, 30, 31}

CivilHours == {0 - s : s \in 1..CivilSlack} \cup {23 + s : s \in 1..CivilSlack} \cup {0, 23}

CivilSixtieths == {0 - s : s \in 1..CivilSlack} \cup {59 + s : s \in 1..CivilSlack} \cup {0, 59}

CivilMillis == {0 - s : s \in 1..CivilSlack} \cup {999 + s : s \in 1..CivilSlack} \cup {0, 999}

CivilInit ==
    /\ op = "init"
    /\ \E y \in CivilYears, m \in CivilMonths, d \in CivilDays,
          h \in CivilHours, mi \in CivilSixtieths, sec \in CivilSixtieths,
          ms \in CivilMillis :
         civ = [year |-> y, month |-> m, day |-> d, hour |-> h,
                minute |-> mi, second |-> sec, millisecond |-> ms]
    /\ dt = Tk(1, 1, 1)
    /\ dec = NoDate
    /\ ts = TkZero
    /\ dto = NoDto
    /\ text = <<>>
    /\ ok = "none"
    /\ prev = TkZero
    /\ aux = 0

CivilConstruct3 ==
    /\ op = "init"
    /\ dt' = DateTimeFromDate(civ.year, civ.month, civ.day)
    /\ op' = "DateTime(y,m,d)"
    /\ UNCHANGED <<civ, dec, ts, dto, text, ok, prev, aux>>

CivilConstruct6 ==
    /\ op = "init"
    /\ dt' = DateTimeFromDateAndTime(civ.year, civ.month, civ.day,
                                     civ.hour, civ.minute, civ.second)
    /\ op' = "DateTime(y,m,d,h,mi,s)"
    /\ UNCHANGED <<civ, dec, ts, dto, text, ok, prev, aux>>

CivilConstruct7 ==
    /\ op = "init"
    /\ dt' = DateTimeFromCivil(civ)
    /\ op' = "DateTime(y,m,d,h,mi,s,ms)"
    /\ UNCHANGED <<civ, dec, ts, dto, text, ok, prev, aux>>

CivilNext == CivilConstruct3 \/ CivilConstruct6 \/ CivilConstruct7

SpecCivil == CivilInit /\ [][CivilNext]_vars

\* the range conditions of the claim, written out
DateInRange(c) ==
    /\ c.year \in 1..9999
    /\ c.month \in 1..12
    /\ c.day >= 1
    /\ c.day <= (IF c.month \in {4, 6, 9, 11} THEN 30
                 ELSE IF c.month # 2 THEN 31
                 ELSE IF c.year % 4 = 0 /\ (c.year % 100 # 0 \/ c.year % 400 = 0)
                      THEN 29 ELSE 28)

ClockInRange(c) ==
    c.hour \in 0..23 /\ c.minute \in 0..59 /\ c.second \in 0..59

\* ticks of the date plus the time of day
CivilTicks(c, withClock, withMillis) ==
    LET date == dateToTicks(c.year, c.month, c.day)
    IN  [d |-> date.d,
         s |-> IF withClock THEN c.hour * 3600 + c.minute * 60 + c.second ELSE 0,
         f |-> IF withMillis THEN c.millisecond * 10000 ELSE 0]

\* C9: the numeric civil constructors return tick 0 whenever a component
\* they take is out of range, and dateToTicks(year, month, day) plus the
\* time-of-day ticks when all of them are in range.
C9_CivilClampsToMin ==
    /\ op = "DateTime(y,m,d)" =>
         dt = IF DateInRange(civ) THEN CivilTicks(civ, FALSE, FALSE) ELSE TkZero
    /\ op = "DateTime(y,m,d,h,mi,s)" =>
         dt = IF DateInRange(civ) /\ ClockInRange(civ)
              THEN CivilTicks(civ, TRUE, FALSE) ELSE TkZero
    /\ op = "DateTime(y,m,d,h,mi,s,ms)" =>
         dt = IF DateInRange(civ) /\ ClockInRange(civ) /\ civ.millisecond \in 0..999
              THEN CivilTicks(civ, TRUE, TRUE) ELSE TkZero

\* 2023-02-29 23:59:59.999 (a day past the month's end) has been clamped
C9_Witness ==
    /\ op = "DateTime(y,m,d,h,mi,s,ms)"
    /\ civ = [year |-> 2023, month |-> 2, day |-> 29, hour |-> 23,
              minute |-> 59, second |-> 59, millisecond |-> 999]
    /\ dt = TkZero

-----------------------------------------------------------------------------
(* Round trips through text: format a value, then parse the text into a   *)
(* fresh object                                                            *)

\* how many ticks next to each edge of a second the sample values take
FracSpan == 1

RoundTripDays == {0, 1, 59, 730119, 738944, 739181, MAX_DATETIME_TICKS.d}

RoundTripSeconds == {0, 1, 59, 60, 3599, 3600, 45296, SECONDS_PER_DAY - 1}

RoundTripFractions ==
    {0, 10, 1000, 120000, 1000000, 1234567, 9000000}
      \cup {x \in 1..FracSpan : TRUE}
      \cup {TICKS_PER_SECOND - x : x \in 1..FracSpan}

\* the value an output object holds before a parse writes to it
DateTimeSentinel == Tk(1, 1, 1)

RoundTripInit ==
    /\ op = "init"
    /\ \E d \in RoundTripDays, sec \in RoundTripSeconds, f \in RoundTripFractions :
         prev = Tk(d, sec, f)
    /\ dt = DateTimeSentinel
    /\ text = <<>>
    /\ ok = "none"
    /\ aux = "none"
    /\ civ = NoCivil
    /\ dec = NoDate
    /\ ts = TkZero
    /\ dto = NoDto

\* text = prev.toString( format )
RoundTripFormat ==
    /\ op = "init"
    /\ \E format \in {"Iso8601Basic", "Iso8601Extended"} :
         /\ text' = DateTimeToString(prev, format)
         /\ aux' = format
    /\ op' = "toString"
    /\ UNCHANGED <<prev, dt, ok, civ, dec, ts, dto>>

\* ok = DateTime::fromString( text, dt )
RoundTripParse ==
    /\ op = "toString"
    /\ \E r \in {DateTimeFromString(text, dt)} :
         /\ ok' = r.ret
         /\ dt' = r.result
    /\ op' = "fromString"
    /\ UNCHANGED <<prev, text, aux, civ, dec, ts, dto>>

RoundTripNext == RoundTripFormat \/ RoundTripParse

SpecRoundTrip == RoundTripInit /\ [][RoundTripNext]_vars

\* C5: parsing the extended-format string of an in-range DateTime succeeds
\* and yields exactly the tick count that was formatted.
C5_ExtendedRoundTrip ==
    (op = "fromString" /\ aux = "Iso8601Extended") => (ok = TRUE /\ dt = prev)

\* 9999-12-31T23:59:59.9999999Z has been formatted and parsed back
C5_Witness ==
    /\ op = "fromString"
    /\ aux = "Iso8601Extended"
    /\ prev = MAX_DATETIME_TICKS
    /\ text = <<"9","9","9","9","-","1","2","-","3","1","T","2","3",":","5","9",":",
                "5","9",".","9","9","9","9","9","9","9","Z">>
    /\ dt = MAX_DATETIME_TICKS

-----------------------------------------------------------------------------
(* TimeSpan (Duration): a signed tick count, and its ISO 8601 text form *)

\* TimeSpan::fromSeconds( double ) and TimeSpan::fromMinutes( double )
TimeSpanFromSeconds(seconds) ==
    DToTicks(DMulConst(seconds, TICKS_PER_MILLISECOND, MILLISECONDS_PER_SECOND))

TimeSpanFromMinutes(minutes) ==
    DToTicks(DMulConst(minutes, SECONDS_PER_MINUTE * MILLISECONDS_PER_SECOND,
                       TICKS_PER_MILLISECOND))

\* the loop "while ( fracLen > 1 && fracBuffer[fracLen - 1] == '0' )"
StripFraction(buf) ==
    IF \E i \in 2..Len(buf) : buf[i] # "0"
    THEN SubSeq(buf, 1, CHOOSE i \in 2..Len(buf) :
                            buf[i] # "0" /\ \A j \in (i + 1)..Len(buf) : buf[j] = "0")
    ELSE SubSeq(buf, 1, 1)

\* TimeSpan::toString(); std::abs of the most negative tick count cannot be
\* represented and the 64-bit negation hands the count back unchanged, so
\* the divisions and remainders below are the truncating ones of C++
TimeSpanToString(ticks) ==
    LET isNegative == TkLess(ticks, TkZero)
        absTicks == IF isNegative THEN TkNeg(ticks) ELSE ticks
        days == TkDays(absTicks)
        remainingSeconds == TkTimeOfDay(absTicks).sign * TkTimeOfDay(absTicks).s
        hours == CDiv(remainingSeconds, SECONDS_PER_HOUR)
        minutes == CDiv(CMod(remainingSeconds, SECONDS_PER_HOUR), SECONDS_PER_MINUTE)
        seconds == CMod(remainingSeconds, SECONDS_PER_MINUTE)
        fractionalTicks == TkTimeOfDay(absTicks).sign * TkTimeOfDay(absTicks).f
        hasTimeComponent == hours > 0 \/ minutes > 0 \/ seconds > 0 \/ fractionalTicks > 0
    IN  (IF isNegative THEN <<"-">> ELSE <<>>)
        \o <<"P">>
        \o (IF days > 0 THEN Dec(days) \o <<"D">> ELSE <<>>)
        \o (IF hasTimeComponent
            THEN <<"T">>
                 \o (IF hours > 0 THEN Dec(hours) \o <<"H">> ELSE <<>>)
                 \o (IF minutes > 0 THEN Dec(minutes) \o <<"M">> ELSE <<>>)
                 \o (IF fractionalTicks > 0
                     THEN Dec(seconds) \o <<".">>
                          \o StripFraction(PutInt(fractionalTicks, 7)) \o <<"S">>
                     ELSE IF seconds > 0 THEN Dec(seconds) \o <<"S">>
                     ELSE <<>>)
            ELSE IF days = 0 THEN <<"T", "0", "S">>
            ELSE <<>>)

\* the failure exits of TimeSpan::fromString: false, result as passed in
TimeSpanParseFail(result) == [ret |-> FALSE, result |-> result]

\* one numeric component: from_chars over part[0 .. pos-1], accepted when it
\* succeeds and takes every character
ParseComponent(part, pos) ==
    LET Taken(r) == [good |-> r.ec = "" /\ r.ptr = pos, value |-> r.value]
    IN  Taken(FromCharsDouble(part, 0, pos))

\* the order validation alone, without the duplicate detection
TimeDesignatorsMisplaced_OrderOnly(timePart, hPos, mPos, sPos) ==
    \/ hPos # NPOS /\ mPos # NPOS /\ hPos > mPos
    \/ hPos # NPOS /\ sPos # NPOS /\ hPos > sPos
    \/ mPos # NPOS /\ sPos # NPOS /\ mPos > sPos

\* "Detect duplicate components" and "Validate component order"
TimeDesignatorsMisplaced(timePart, hPos, mPos, sPos) ==
    \/ hPos # NPOS /\ Find(timePart, "H", hPos + 1) # NPOS
    \/ mPos # NPOS /\ Find(timePart, "M", mPos + 1) # NPOS
    \/ sPos # NPOS /\ Find(timePart, "S", sPos + 1) # NPOS
    \/ hPos # NPOS /\ mPos # NPOS /\ hPos > mPos
    \/ hPos # NPOS /\ sPos # NPOS /\ hPos > sPos
    \/ mPos # NPOS /\ sPos # NPOS /\ mPos > sPos

\* "Parse hours", "Parse minutes", "Parse seconds": the component that ends
\* at the first designator c of st.timePart, worth secondsPer seconds, added
\* to st.totalSeconds; st.timePart moves past it
TimeComponent(st, c, secondsPer) ==
    LET Parsed(pos, comp) ==
            IF ~comp.good THEN [st EXCEPT !.good = FALSE]
            ELSE [good |-> TRUE,
                  timePart |-> SubstrFrom(st.timePart, pos + 1),
                  totalSeconds |-> DAdd(st.totalSeconds,
                                        DMulConst(comp.value, secondsPer, 1)),
                  foundComponent |-> TRUE]
        At_(pos) ==
            IF pos = NPOS THEN st ELSE Parsed(pos, ParseComponent(st.timePart, pos))
    IN  IF ~st.good THEN st ELSE At_(Find(st.timePart, c, 0))

\* the time part after 'T': [good, timePart, totalSeconds, foundComponent]
TimeSpanParseTimePart(timePart) ==
    IF timePart = <<>>
       \/ TimeDesignatorsMisplaced(timePart, Find(timePart, "H", 0),
                                   Find(timePart, "M", 0), Find(timePart, "S", 0))
    THEN [good |-> FALSE, timePart |-> timePart, totalSeconds |-> DZero,
          foundComponent |-> FALSE]
    ELSE TimeComponent(
             TimeComponent(
                 TimeComponent([good |-> TRUE, timePart |-> timePart,
                                totalSeconds |-> DZero, foundComponent |-> FALSE],
                               "H", SECONDS_PER_HOUR),
                 "M", SECONDS_PER_MINUTE),
             "S", 1)

\* "if ( !foundComponent ) return false", "totalSeconds += days * 86400.0",
\* "if ( isNegative ) ...", "result = TimeSpan::fromSeconds( totalSeconds )",
\* for the parsed time part time
TimeSpanTotal(result, isNegative, days, foundDays, time) ==
    IF ~time.good \/ ~(foundDays \/ time.foundComponent) THEN TimeSpanParseFail(result)
    ELSE IF isNegative
    THEN [ret |-> TRUE,
          result |-> TimeSpanFromSeconds(
                         DNeg(DAdd(time.totalSeconds,
                                   DMulConst(days, SECONDS_PER_DAY, 1))))]
    ELSE [ret |-> TRUE,
          result |-> TimeSpanFromSeconds(
                         DAdd(time.totalSeconds, DMulConst(days, SECONDS_PER_DAY, 1)))]

\* "Parse time part": what follows 'T' when parseStr has one at tPos
TimeSpanTimePart(result, isNegative, days, foundDays, parseStr, tPos) ==
    TimeSpanTotal(result, isNegative, days, foundDays,
                  IF tPos # NPOS THEN TimeSpanParseTimePart(SubstrFrom(parseStr, tPos + 1))
                  ELSE [good |-> TRUE, timePart |-> <<>>, totalSeconds |-> DZero,
                        foundComponent |-> FALSE])

\* "Parse date part": comp is the days component when datePart has a 'D'
TimeSpanDays(result, isNegative, parseStr, tPos, foundDays, comp) ==
    IF ~comp.good THEN TimeSpanParseFail(result)
    ELSE TimeSpanTimePart(result, isNegative, comp.value, foundDays, parseStr, tPos)

TimeSpanDatePart(result, isNegative, parseStr, tPos, datePart) ==
    TimeSpanDays(result, isNegative, parseStr, tPos, Find(datePart, "D", 0) # NPOS,
                 IF Find(datePart, "D", 0) # NPOS
                 THEN ParseComponent(datePart, Find(datePart, "D", 0))
                 ELSE [good |-> TRUE, value |-> DZero])

\* "Must start with 'P'", "Find 'T' separator"
TimeSpanPeriod(result, isNegative, parseStr) ==
    IF Len(parseStr) > 1 /\ At(parseStr, 0) = "P"
    THEN TimeSpanDatePart(result, isNegative, parseStr, Find(parseStr, "T", 0),
                          IF Find(parseStr, "T", 0) # NPOS
                          THEN Substr(parseStr, 1, Find(parseStr, "T", 0) - 1)
                          ELSE SubstrFrom(parseStr, 1))
    ELSE TimeSpanParseFail(result)

\* "Try parsing as simple numeric value (seconds)": r is from_chars' outcome
TimeSpanNumeric(result, len, r) ==
    IF r.ec = "" /\ r.ptr = len
    THEN [ret |-> TRUE, result |-> TimeSpanFromSeconds(r.value)]
    ELSE TimeSpanParseFail(result)

\* bool TimeSpan::fromString( string_view, TimeSpan& result ): [ret, result]
TimeSpanFromString(str, result) ==
    IF str = <<>> THEN TimeSpanParseFail(result)
    ELSE IF FindFirstNotOf(str, {"0", "1", "2", "3", "4", "5", "6", "7", "8", "9",
                                 ".", "-"}) = NPOS
    THEN TimeSpanNumeric(result, Len(str), FromCharsDouble(str, 0, Len(str)))
    ELSE IF At(str, 0) = "-" THEN TimeSpanPeriod(result, TRUE, SubstrFrom(str, 1))
    ELSE TimeSpanPeriod(result, FALSE, str)

\* the optional overload's outcome for the parse result r
SpanOptOutcome(r) == [has_value |-> r.ret, value |-> r.result]

\* std::optional<TimeSpan> TimeSpan::fromString( string_view )
TimeSpanFromStringOpt(str) == SpanOptOutcome(TimeSpanFromString(str, TkZero))

-----------------------------------------------------------------------------
(* DateTimeOffset (OffsetInstant) text: the parser of date-time + offset *)

\* std::stoi( str ): leading blanks, an optional sign, then the longest run
\* of digits; throws std::invalid_argument without a digit and
\* std::out_of_range beyond std::int32_t: [thrown, value]
StoI(str) ==
    LET Value(negative, mag) ==
            IF mag < 0 THEN [thrown |-> "out_of_range", value |-> 0]
            ELSE [thrown |-> "", value |-> IF negative THEN -mag ELSE mag]
        Digits(negative, start, stop) ==
            IF stop = start THEN [thrown |-> "invalid_argument", value |-> 0]
            ELSE Value(negative, DigitsValue(str, start, stop, 0))
        Signed(negative, start) ==
            Digits(negative, start, ScanDigits(str, start, Len(str), -1))
        Blank(p0) ==
            IF p0 = NPOS THEN Signed(FALSE, Len(str))
            ELSE IF At(str, p0) \in {"+", "-"} THEN Signed(At(str, p0) = "-", p0 + 1)
            ELSE Signed(FALSE, p0)
    IN  Blank(FindFirstNotOf(str, {" "}))

\* the loop "for ( auto i{ s.length() }; i > 10; --i )": position of the last
\* 'Z', '+' or '-' at index 10 or later
OffsetScan(s, i) ==
    IF \E k \in 10..(i - 1) : At(s, k) \in {"Z", "+", "-"}
    THEN CHOOSE k \in 10..(i - 1) :
             /\ At(s, k) \in {"Z", "+", "-"}
             /\ \A j \in (k + 1)..(i - 1) : At(s, j) \notin {"Z", "+", "-"}
    ELSE NPOS

NoField == [thrown |-> "", value |-> 0]

\* the largest hours for which hours * 60 + 59 stays within std::int32_t
\* (beyond it the sum overflows; no modelled designator goes there)
OffsetHoursRepresentable(hours) == hours <= (INT32_MAX - 59) \div MINUTES_PER_HOUR

\* the validation "totalMinutes <= 840" of an offset (14 hours in minutes)
OffsetWithinLimit_FifteenHours(totalMinutes) == totalMinutes <= 900

OffsetWithinLimit(totalMinutes) == totalMinutes <= 840

\* the designator offsetStr = sign + numericPart:
\* [thrown, offsetParsed, offset]
ParseOffsetDesignator(offsetStr) ==
    LET Total(isNegative, totalMinutes) ==
            IF OffsetWithinLimit(totalMinutes)
            THEN [thrown |-> FALSE, offsetParsed |-> TRUE,
                  offset |-> TimeSpanFromMinutes(DFromInt(IF isNegative THEN -totalMinutes
                                                           ELSE totalMinutes))]
            ELSE [thrown |-> FALSE, offsetParsed |-> FALSE, offset |-> TkZero]
        Fields(isNegative, hours, minutes) ==
            IF hours.thrown # "" \/ minutes.thrown # ""
            THEN [thrown |-> TRUE, offsetParsed |-> FALSE, offset |-> TkZero]
            ELSE IF hours.value >= 0 /\ minutes.value >= 0 /\ minutes.value <= 59
                    /\ OffsetHoursRepresentable(hours.value)
            THEN Total(isNegative, hours.value * MINUTES_PER_HOUR + minutes.value)
            ELSE [thrown |-> FALSE, offsetParsed |-> FALSE, offset |-> TkZero]
        Numeric(isNegative, numericPart, colonPos) ==
            IF colonPos # NPOS
            THEN (IF colonPos > 0 /\ colonPos < Len(numericPart) - 1
                  THEN Fields(isNegative, StoI(Substr(numericPart, 0, colonPos)),
                              StoI(SubstrFrom(numericPart, colonPos + 1)))
                  ELSE Fields(isNegative, NoField, NoField))
            ELSE IF Len(numericPart) = 4
            THEN Fields(isNegative, StoI(Substr(numericPart, 0, 2)),
                        StoI(Substr(numericPart, 2, 2)))
            ELSE IF Len(numericPart) = 2 \/ Len(numericPart) = 1
            THEN Fields(isNegative, StoI(numericPart), NoField)
            ELSE Fields(isNegative, NoField, NoField)
        Split(isNegative, numericPart) ==
            Numeric(isNegative, numericPart, Find(numericPart, ":", 0))
    IN  IF Len(offsetStr) < 2
        THEN [thrown |-> FALSE, offsetParsed |-> FALSE, offset |-> TkZero]
        ELSE Split(At(offsetStr, 0) = "-", SubstrFrom(offsetStr, 1))

\* DateTime::tryParse as DateTimeOffset::tryParse calls it: the non-throwing
\* parser of DateTime
DateTimeTryParse(s, result) == DateTimeFromString(s, result)

\* the exits of DateTimeOffset::tryParse that return false, result as passed
DateTimeOffsetParseFail(result) == [ret |-> FALSE, result |-> result]

\* bool DateTimeOffset::tryParse( string_view, DateTimeOffset& result ):
\* [ret, result]
DateTimeOffsetTryParse(str, result) ==
    LET Finish(designator, parsed) ==
            IF ~designator.thrown /\ parsed.ret /\ designator.offsetParsed
            THEN [ret |-> TRUE,
                  result |-> DateTimeOffsetFrom(parsed.result, designator.offset)]
            ELSE DateTimeOffsetParseFail(result)
        \* the designator is parsed first; when std::stoi throws, the date-time
        \* text s is never looked at
        DateTimePart(designator, s) ==
            IF designator.thrown THEN DateTimeOffsetParseFail(result)
            ELSE Finish(designator, DateTimeTryParse(s, DateTimeDefault))
        Indicator(offsetPos) ==
            IF offsetPos = NPOS
            THEN DateTimePart([thrown |-> FALSE, offsetParsed |-> TRUE, offset |-> TkZero],
                              str)
            ELSE IF At(str, offsetPos) = "Z"
            THEN DateTimePart([thrown |-> FALSE, offsetParsed |-> TRUE, offset |-> TkZero],
                              Substr(str, 0, offsetPos))
            ELSE DateTimePart(ParseOffsetDesignator(SubstrFrom(str, offsetPos)),
                              Substr(str, 0, offsetPos))
    IN  Indicator(OffsetScan(str, Len(str)))

\* the outcome of DateTimeOffset::parse for the tryParse result r
OffsetParseOutcome(r) ==
    IF r.ret THEN [thrown |-> "", value |-> r.result]
    ELSE [thrown |-> "invalid_argument", value |-> DateTimeOffsetDefault]

\* DateTimeOffset::parse and DateTimeOffset( string_view ): [thrown, value]
DateTimeOffsetParse(str) ==
    OffsetParseOutcome(DateTimeOffsetTryParse(str, DateTimeOffsetDefault))

-----------------------------------------------------------------------------
(* Duration round trip: format a TimeSpan, then parse the string back *)

\* whole days, seconds of the day and fractional ticks of the sample values
SpanDays == {0, 1, 10424}

SpanSeconds == {0, 59, 3600, 3723, 86399}

SpanFractions == {0, 1, 21, 5000000, 9999999}

TimeSpanSentinel == Tk(1, 1, 1)

\* TimeSpan d{ ticks } of either sign; result is the caller's TimeSpan
SpanInit ==
    /\ op = "init"
    /\ \E d \in SpanDays, sec \in SpanSeconds, f \in SpanFractions, neg \in BOOLEAN :
         prev = IF neg THEN Tk(-d, -sec, -f) ELSE Tk(d, sec, f)
    /\ ts = TimeSpanSentinel
    /\ text = <<>>
    /\ ok = "none"
    /\ aux = "none"
    /\ civ = NoCivil
    /\ dec = NoDate
    /\ dt = TkZero
    /\ dto = NoDto

\* text = d.toString()
SpanFormat ==
    /\ op = "init"
    /\ text' = TimeSpanToString(prev)
    /\ op' = "toString"
    /\ UNCHANGED <<prev, ts, ok, aux, civ, dec, dt, dto>>

\* ok = TimeSpan::fromString( text, result )
SpanParse ==
    /\ op = "toString"
    /\ \E r \in {TimeSpanFromString(text, ts)} :
         /\ ok' = r.ret
         /\ ts' = r.result
    /\ op' = "fromString"
    /\ UNCHANGED <<prev, text, aux, civ, dec, dt, dto>>

SpanNext == SpanFormat \/ SpanParse

SpecSpan == SpanInit /\ [][SpanNext]_vars

\* C6: parsing the string a TimeSpan formats to succeeds and yields exactly
\* the tick count that was formatted.
C6_DurationRoundTrip ==
    (op = "fromString") => (ok = TRUE /\ ts = prev)

-----------------------------------------------------------------------------
(* Offset designators: parse a date-time followed by sign, hours, minutes *)

OffsetHourMax == 16

DesignatorHours == 0..OffsetHourMax

DesignatorMinutes == {0, 1, 30, 59, 60, 61, 99}

DesignatorForms == {"HH:MM", "HHMM", "HH"}

\* the text of a designator; the form "HH" carries no minutes
DesignatorText(sign, hours, minutes, form) ==
    <<sign>> \o PutInt(hours, 2)
    \o (IF form = "HH:MM" THEN <<":">> \o PutInt(minutes, 2)
        ELSE IF form = "HHMM" THEN PutInt(minutes, 2)
        ELSE <<>>)

\* the date-time texts the designators are appended to
DesignatorBases ==
    { <<"2", "0", "2", "4", "-", "0", "1", "-", "1", "5">>,
      <<"2", "0", "2", "4", "-", "0", "1", "-", "1", "5", "T",
        "1", "2", ":", "0", "0", ":", "0", "0">>,
      <<"2", "0", "2", "4", "-", "0", "1", "-", "1", "5", "T",
        "1", "2", ":", "0", "0", ":", "0", "0", ".", "5">> }

DateTimeOffsetSentinel == [dateTime |-> Tk(10000, 1, 1), offset |-> Tk(0, 0, 77)]

\* text = date-time + designator; aux remembers the designator's fields and
\* prev the DateTime of the date-time text alone
DesignatorInit ==
    /\ op = "init"
    /\ \E base \in DesignatorBases, sign \in {"+", "-"}, hours \in DesignatorHours,
          minutes \in DesignatorMinutes, form \in DesignatorForms :
         /\ form = "HH" => minutes = 0
         /\ text = base \o DesignatorText(sign, hours, minutes, form)
         /\ aux = [sign |-> sign, hours |-> hours, minutes |-> minutes, form |-> form]
         /\ prev = DateTimeFromString(base, DateTimeDefault).result
    /\ dto = DateTimeOffsetSentinel
    /\ ok = "none"
    /\ civ = NoCivil
    /\ dec = NoDate
    /\ dt = TkZero
    /\ ts = TkZero

\* ok = DateTimeOffset::tryParse( text, dto )
DesignatorTryParse ==
    /\ op = "init"
    /\ \E r \in {DateTimeOffsetTryParse(text, dto)} :
         /\ ok' = r.ret
         /\ dto' = r.result
    /\ op' = "tryParse"
    /\ UNCHANGED <<text, aux, prev, civ, dec, dt, ts>>

\* dto = DateTimeOffset::parse( text ), ok = "no exception"
DesignatorParse ==
    /\ op = "init"
    /\ \E r \in {DateTimeOffsetParse(text)} :
         /\ ok' = (r.thrown = "")
         /\ dto' = IF r.thrown = "" THEN r.value ELSE dto
    /\ op' = "parse"
    /\ UNCHANGED <<text, aux, prev, civ, dec, dt, ts>>

DesignatorNext == DesignatorTryParse \/ DesignatorParse

SpecDesignator == DesignatorInit /\ [][DesignatorNext]_vars

\* the offset a designator denotes, by integer arithmetic
DesignatorTicks(a) ==
    LET seconds == (a.hours * MINUTES_PER_HOUR + a.minutes) * SECONDS_PER_MINUTE
    IN  Tk(0, IF a.sign = "-" THEN -seconds ELSE seconds, 0)

\* C10: a designator parses exactly when its minutes are at most 59 and
\* hours*60+minutes is at most 840 (14:00), and then the offset is exactly
\* the designated one; every larger designator fails the parse.
C10_OffsetLimit ==
    (op \in {"tryParse", "parse"}) =>
        /\ ok = (aux.minutes <= 59 /\ aux.hours * 60 + aux.minutes <= 840)
        /\ ok => (dto.offset = DesignatorTicks(aux) /\ dto.dateTime = prev)

\* "...-1400" has parsed with an offset of exactly -14 hours
C10_Witness ==
    /\ op = "tryParse"
    /\ ok = TRUE
    /\ aux = [sign |-> "-", hours |-> 14, minutes |-> 0, form |-> "HHMM"]
    /\ dto.offset = Tk(0, -14 * SECONDS_PER_HOUR, 0)

-----------------------------------------------------------------------------
(* Non-throwing parsers: each of the three applied to well-formed and      *)
(* malformed text, writing into an object the caller already holds         *)

ParsePrefixes ==
    { <<>>,
      <<"2", "0", "2", "4", "-", "0", "1", "-", "1", "5">>,
      <<"2", "0", "2", "4", "-", "1", "3", "-", "1", "5">>,
      <<"2", "0", "2", "4", "-", "0", "1", "-", "1", "5", "T", "1", "2", ":", "0", "0", ":", "0", "0">>,
      <<"2", "0", "2", "4", "-", "0", "1", "-", "1", "5", "T", "2", "5", ":", "0", "0", ":", "0", "0">>,
      <<"2", "0", "2", "4", "-", "0", "1", "-", "1", "5", "T", "1", "2", ":", "0", "0">>,
      <<"P", "T", "1", "H">>,
      <<"P", "1", "D">>,
      <<"P", "T">>,
      <<"P", "1", "D", "T", "1", "H">>,
      <<"-", "P", "T", "5", ".", "5", "S">>,
      <<"1", "2", ".", "5">>,
      <<"a", "b", "c">> }

ParseSuffixes ==
    { <<>>,
      <<"Z">>,
      <<"+", "0", "5", ":", "3", "0">>,
      <<"+", "1", "5", ":", "0", "0">>,
      <<"+", "a", "b">>,
      <<"x">>,
      <<"1", "H">>,
      <<"S">> }

ParseTexts == { p \o q : p \in ParsePrefixes, q \in ParseSuffixes }

\* the caller's objects before the call: default-constructed or holding an
\* earlier value
ParseInit ==
    /\ op = "init"
    /\ text \in ParseTexts
    /\ \E held \in BOOLEAN :
         /\ dt = IF held THEN DateTimeSentinel ELSE DateTimeDefault
         /\ ts = IF held THEN TimeSpanSentinel ELSE TkZero
         /\ dto = IF held THEN DateTimeOffsetSentinel ELSE DateTimeOffsetDefault
    /\ prev = [dt |-> dt, ts |-> ts, dto |-> dto]
    /\ ok = "none"
    /\ aux = "none"
    /\ civ = NoCivil
    /\ dec = NoDate

\* ok = DateTime::fromString( text, dt )
ParseInstant ==
    /\ op = "init"
    /\ \E r \in {DateTimeFromString(text, dt)} :
         /\ ok' = r.ret
         /\ dt' = r.result
    /\ op' = "DateTime::fromString"
    /\ UNCHANGED <<text, prev, ts, dto, aux, civ, dec>>

\* ok = TimeSpan::fromString( text, ts )
ParseDuration ==
    /\ op = "init"
    /\ \E r \in {TimeSpanFromString(text, ts)} :
         /\ ok' = r.ret
         /\ ts' = r.result
    /\ op' = "TimeSpan::fromString"
    /\ UNCHANGED <<text, prev, dt, dto, aux, civ, dec>>

\* ok = DateTimeOffset::tryParse( text, dto )
ParseOffsetInstant ==
    /\ op = "init"
    /\ \E r \in {DateTimeOffsetTryParse(text, dto)} :
         /\ ok' = r.ret
         /\ dto' = r.result
    /\ op' = "DateTimeOffset::tryParse"
    /\ UNCHANGED <<text, prev, dt, ts, aux, civ, dec>>

ParseNext == ParseInstant \/ ParseDuration \/ ParseOffsetInstant

SpecParse == ParseInit /\ [][ParseNext]_vars

\* C7: when a non-throwing parse returns false, the object passed for the
\* result holds exactly the value it held before the call.
C7_FailureLeavesResult ==
    (op # "init" /\ ok = FALSE) => (dt = prev.dt /\ ts = prev.ts /\ dto = prev.dto)

\* "2024-01-15T12:00:00+15:00": the date-time is well-formed, the offset is
\* refused, and the DateTimeOffset passed in still holds its earlier value
C7_Witness ==
    /\ op = "DateTimeOffset::tryParse"
    /\ ok = FALSE
    /\ text = <<"2", "0", "2", "4", "-", "0", "1", "-", "1", "5", "T", "1", "2", ":",
                "0", "0", ":", "0", "0", "+", "1", "5", ":", "0", "0">>
    /\ dto = DateTimeOffsetSentinel

-----------------------------------------------------------------------------
(* Civil fields in text: strings written from numeric fields, in range or  *)
(* not, given to the three string entry points of DateTime                 *)

FieldYears == {0, 1, 1900, 2023, 2024, 9999}

FieldMonths == {0, 1, 2, 4, 12, 13, 99}

FieldDays == {0, 1, 28, 29, 30, 31, 32, 99}

FieldHours == {0, 23, 24, 99}

FieldSixtieths == {0, 59, 60, 99}

FieldShapes == {"date", "date-time", "date-time.f"}

\* YYYY-MM-DD, YYYY-MM-DDTHH:MM:SS or YYYY-MM-DDTHH:MM:SS.5 of the fields c
FieldText(c, shape) ==
    PutInt(c.year, 4) \o <<"-">> \o PutInt(c.month, 2) \o <<"-">> \o PutInt(c.day, 2)
    \o (IF shape = "date" THEN <<>>
        ELSE <<"T">> \o PutInt(c.hour, 2) \o <<":">> \o PutInt(c.minute, 2)
             \o <<":">> \o PutInt(c.second, 2))
    \o (IF shape = "date-time.f" THEN <<".", "5">> ELSE <<>>)

FieldInit ==
    /\ op = "init"
    /\ \E y \in FieldYears, m \in FieldMonths, d \in FieldDays, shape \in FieldShapes :
         \E h \in FieldHours, mi \in FieldSixtieths, sec \in FieldSixtieths :
            /\ shape = "date" => (h = 0 /\ mi = 0 /\ sec = 0)
            /\ civ = [year |-> y, month |-> m, day |-> d, hour |-> h, minute |-> mi,
                      second |-> sec, millisecond |-> 0]
            /\ aux = shape
            /\ text = FieldText(civ, shape)
    /\ dt = DateTimeSentinel
    /\ ok = "none"
    /\ prev = "none"
    /\ dec = NoDate
    /\ ts = TkZero
    /\ dto = NoDto

\* ok = DateTime::fromString( text, dt )
FieldFromString ==
    /\ op = "init"
    /\ \E r \in {DateTimeFromString(text, dt)} :
         /\ ok' = r.ret
         /\ dt' = r.result
    /\ op' = "fromString"
    /\ UNCHANGED <<text, civ, aux, prev, dec, ts, dto>>

\* std::optional<DateTime> r = DateTime::fromString( text ), ok = r.has_value()
FieldFromStringOpt ==
    /\ op = "init"
    /\ \E r \in {DateTimeFromStringOpt(text)} :
         /\ ok' = r.has_value
         /\ dt' = IF r.has_value THEN r.value ELSE dt
    /\ op' = "fromString optional"
    /\ UNCHANGED <<text, civ, aux, prev, dec, ts, dto>>

\* DateTime dt{ text }, ok = "no exception", prev = the exception thrown
FieldConstruct ==
    /\ op = "init"
    /\ \E r \in {DateTimeFromStringCtor(text)} :
         /\ ok' = (r.thrown = "")
         /\ prev' = r.thrown
         /\ dt' = IF r.thrown = "" THEN r.ticks ELSE dt
    /\ op' = "DateTime(string)"
    /\ UNCHANGED <<text, civ, aux, dec, ts, dto>>

FieldNext == FieldFromString \/ FieldFromStringOpt \/ FieldConstruct

SpecField == FieldInit /\ [][FieldNext]_vars

\* the fields of the text describe no civil value
FieldsInvalid == ~DateInRange(civ) \/ (aux # "date" /\ ~ClockInRange(civ))

\* C8: a date or date-time string whose fields are out of range fails every
\* string entry point: fromString returns false or an empty optional and the
\* string constructor throws std::invalid_argument.
C8_InvalidFieldsFail ==
    FieldsInvalid =>
        /\ op \in {"fromString", "fromString optional"} => ok = FALSE
        /\ op = "DateTime(string)" => (ok = FALSE /\ prev = "std::invalid_argument")

\* "2023-02-29T23:59:59" (a day past the month's end) has made the string
\* constructor throw
C8_Witness ==
    /\ op = "DateTime(string)"
    /\ ok = FALSE
    /\ prev = "std::invalid_argument"
    /\ aux = "date-time"
    /\ civ = [year |-> 2023, month |-> 2, day |-> 29, hour |-> 23, minute |-> 59,
              second |-> 59, millisecond |-> 0]

-----------------------------------------------------------------------------
(* Doubled signs: a date-time followed by a sign and then a well-formed     *)
(* offset designator                                                        *)

SignHours == {0, 1, 5, 14}

SignMinutes == {0, 30}

\* text = date-time + lead + designator; aux remembers the parts
SignInit ==
    /\ op = "init"
    /\ \E base \in DesignatorBases, lead \in {"", "+", "-"}, sign \in {"+", "-"},
          hours \in SignHours, minutes \in SignMinutes, form \in DesignatorForms :
         /\ hours * MINUTES_PER_HOUR + minutes <= 840
         /\ form = "HH" => minutes = 0
         /\ text = base \o (IF lead = "" THEN <<>> ELSE <<lead>>)
                   \o DesignatorText(sign, hours, minutes, form)
         /\ aux = [lead |-> lead, sign |-> sign, hours |-> hours, minutes |-> minutes,
                   form |-> form]
         /\ prev = DateTimeFromString(base, DateTimeDefault).result
    /\ dto = DateTimeOffsetSentinel
    /\ ok = "none"
    /\ civ = NoCivil
    /\ dec = NoDate
    /\ dt = TkZero
    /\ ts = TkZero

\* ok = DateTimeOffset::tryParse( text, dto )
SignTryParse ==
    /\ op = "init"
    /\ \E r \in {DateTimeOffsetTryParse(text, dto)} :
         /\ ok' = r.ret
         /\ dto' = r.result
    /\ op' = "tryParse"
    /\ UNCHANGED <<text, aux, prev, civ, dec, dt, ts>>

\* dto = DateTimeOffset::parse( text ), ok = "no exception"
SignParse ==
    /\ op = "init"
    /\ \E r \in {DateTimeOffsetParse(text)} :
         /\ ok' = (r.thrown = "")
         /\ dto' = IF r.thrown = "" THEN r.value ELSE dto
    /\ op' = "parse"
    /\ UNCHANGED <<text, aux, prev, civ, dec, dt, ts>>

SignNext == SignTryParse \/ SignParse

SpecSign == SignInit /\ [][SignNext]_vars

\* C11: a string whose offset sign is immediately preceded by another sign
\* character fails to parse.
C11_DoubleSignRejected ==
    (op \in {"tryParse", "parse"} /\ aux.lead # "") => ok = FALSE

-----------------------------------------------------------------------------
(* Year ends: the last day of a year and the first day of the next *)

YearEndInit ==
    /\ op = "init"
    /\ \E y \in MIN_YEAR..(MAX_YEAR - 1) :
         civ = [NoCivil EXCEPT !.year = y, !.month = 12, !.day = 31]
    /\ dt = TkZero
    /\ prev = TkZero
    /\ aux = [last |-> 0, first |-> 0]
    /\ dec = NoDate
    /\ ts = TkZero
    /\ dto = NoDto
    /\ text = <<>>
    /\ ok = "none"

\* prev = dateToTicks( y, 12, 31 ), dt = dateToTicks( y + 1, 1, 1 )
YearEndEncode ==
    /\ op = "init"
    /\ prev' = dateToTicks(civ.year, 12, 31)
    /\ dt' = dateToTicks(civ.year + 1, 1, 1)
    /\ op' = "dateToTicks"
    /\ UNCHANGED <<civ, aux, dec, ts, dto, text, ok>>

\* the years decoded from both tick counts
YearEndDecode ==
    /\ op = "dateToTicks"
    /\ aux' = [last |-> dateComponentsFromTicks(prev).year,
               first |-> dateComponentsFromTicks(dt).year]
    /\ op' = "dateComponentsFromTicks"
    /\ UNCHANGED <<civ, dt, prev, dec, ts, dto, text, ok>>

YearEndNext == YearEndEncode \/ YearEndDecode

SpecYearEnd == YearEndInit /\ [][YearEndNext]_vars

\* C12: for every year y in 1..9998 the first day of y+1 lies exactly one day
\* of ticks after the last day of y, and the two tick counts decode to the
\* years y+1 and y.
C12_YearBoundary ==
    /\ op # "init" => (TkLess(prev, dt) /\ TkSub(dt, prev) = Tk(0, SECONDS_PER_DAY, 0))
    /\ op = "dateComponentsFromTicks" =>
           (aux.first = civ.year + 1 /\ aux.last = civ.year)

\* 1999-12-31 and 2000-01-01 have been encoded and decoded
C12_Witness ==
    /\ op = "dateComponentsFromTicks"
    /\ civ.year = 1999
    /\ prev = Tk(730118, 0, 0)
    /\ dt = Tk(730119, 0, 0)
    /\ aux = [last |-> 1999, first |-> 2000]

-----------------------------------------------------------------------------
(* Leap years: isLeapYear and daysInMonth asked about the same year *)

LeapInit ==
    /\ op = "init"
    /\ \E y \in MIN_YEAR..MAX_YEAR, m \in 1..12 :
         civ = [NoCivil EXCEPT !.year = y, !.month = m]
    /\ ok = "none"
    /\ aux = 0
    /\ dt = TkZero
    /\ prev = TkZero
    /\ dec = NoDate
    /\ ts = TkZero
    /\ dto = NoDto
    /\ text = <<>>

\* ok = DateTime::isLeapYear( year )
LeapIsLeapYear ==
    /\ op = "init"
    /\ ok' = isLeapYear(civ.year)
    /\ op' = "isLeapYear"
    /\ UNCHANGED <<civ, aux, dt, prev, dec, ts, dto, text>>

\* aux = DateTime::daysInMonth( year, month )
LeapDaysInMonth ==
    /\ op = "isLeapYear"
    /\ aux' = daysInMonth(civ.year, civ.month)
    /\ op' = "daysInMonth"
    /\ UNCHANGED <<civ, ok, dt, prev, dec, ts, dto, text>>

LeapNext == LeapIsLeapYear \/ LeapDaysInMonth

SpecLeap == LeapInit /\ [][LeapNext]_vars

\* C13: for every year y in 1..9999 isLeapYear(y) is true exactly when y is
\* divisible by 4 and (not divisible by 100 or divisible by 400), and exactly
\* when daysInMonth(y, 2) is 29.
C13_LeapYearRule ==
    /\ op # "init" =>
           (ok <=> (civ.year % 4 = 0 /\ (civ.year % 100 # 0 \/ civ.year % 400 = 0)))
    /\ (op = "daysInMonth" /\ civ.month = 2) => (ok <=> aux = 29)

\* February of 1900, a century year that is no leap year, has been asked
C13_Witness ==
    /\ op = "daysInMonth"
    /\ civ.year = 1900 /\ civ.month = 2
    /\ ok = FALSE
    /\ aux = 28

-----------------------------------------------------------------------------
(* Differences: b - a taken as a TimeSpan and added back to a *)

\* in-range values: both ends, their neighbours, the epochs and times of day
DiffTicks ==
    {MIN_DATETIME_TICKS, Tk(0, 0, 1), Tk(0, 1, 0), Tk(1, 0, 0),
     MICROSOFT_FILETIME_EPOCH_TICKS, UNIX_EPOCH_TICKS,
     Tk(738899, 43200, 1234567), Tk(738899, 43200, 1234568), Tk(739181, 86399, 9999999),
     Tk(MAX_DATETIME_TICKS.d, 0, 0), TkSub(MAX_DATETIME_TICKS, Tk(0, 0, 1)),
     MAX_DATETIME_TICKS}

\* dt = a, prev = b
DiffInit ==
    /\ op = "init"
    /\ dt \in DiffTicks
    /\ prev \in DiffTicks
    /\ ts = TkZero
    /\ aux = TkZero
    /\ civ = NoCivil
    /\ dec = NoDate
    /\ dto = NoDto
    /\ text = <<>>
    /\ ok = "none"

\* ts = b - a
DiffSubtract ==
    /\ op = "init"
    /\ ts' = DateTimeDiff(prev, dt)
    /\ op' = "operator-(DateTime)"
    /\ UNCHANGED <<dt, prev, aux, civ, dec, dto, text, ok>>

\* aux = a + ts
DiffAdd ==
    /\ op = "operator-(DateTime)"
    /\ aux' = DateTimePlus(dt, ts)
    /\ op' = "operator+"
    /\ UNCHANGED <<dt, prev, ts, civ, dec, dto, text, ok>>

DiffNext == DiffSubtract \/ DiffAdd

SpecDiff == DiffInit /\ [][DiffNext]_vars

\* C14: for all in-range a and b, a + (b - a) has exactly the ticks of b.
C14_AddDifference ==
    op = "operator+" => aux = prev

\* a is the maximum and b the minimum: the difference is -MAX_TICKS and the
\* sum is the minimum again
C14_Witness ==
    /\ op = "operator+"
    /\ dt = MAX_DATETIME_TICKS
    /\ prev = MIN_DATETIME_TICKS
    /\ ts = TkNeg(MAX_DATETIME_TICKS)
    /\ aux = MIN_DATETIME_TICKS

-----------------------------------------------------------------------------
(* DateTimeOffset: TimeSpan arithmetic *)

\* the duration added to the UTC reading and stored as the local one
DateTimeOffsetPlus_FromUtc(x, duration) ==
    DateTimeOffsetFrom(DateTimePlus(utcDateTime(x), duration), x.offset)

\* DateTimeOffset::operator+( TimeSpan ), operator-( TimeSpan )
DateTimeOffsetPlus(x, duration) ==
    DateTimeOffsetFrom(DateTimePlus(x.dateTime, duration), x.offset)

DateTimeOffsetMinus(x, duration) ==
    DateTimeOffsetFrom(DateTimeMinus(x.dateTime, duration), x.offset)

\* DateTimeOffset::operator+=( TimeSpan ), operator-=( TimeSpan ): m_dateTime
\* is updated in place through DateTime::operator+= and operator-=
DateTimeOffsetPlusAssign(x, duration) ==
    [x EXCEPT !.dateTime = TkAdd(x.dateTime, duration)]

DateTimeOffsetMinusAssign(x, duration) ==
    [x EXCEPT !.dateTime = TkSub(x.dateTime, duration)]

\* durations handed to the operators
ShiftSpans ==
    {TkZero, Tk(0, 0, 1), Tk(0, 0, -1), Tk(0, 5400, 0), Tk(-1, 0, 0),
     Tk(365, 3600, 1234567)}

\* prev keeps the operand as it was before the operator
ShiftInit ==
    /\ op = "init"
    /\ \E i \in OffsetLocals, o \in OffsetSpans :
         dto = DateTimeOffsetFrom(DateTimeFromTicks(i), o)
    /\ prev = dto
    /\ ts \in ShiftSpans
    /\ aux = NoCompare
    /\ dt = TkZero
    /\ civ = NoCivil
    /\ dec = NoDate
    /\ text = <<>>
    /\ ok = "none"

ShiftPlus ==
    /\ op = "init"
    /\ dto' = DateTimeOffsetPlus(dto, ts)
    /\ op' = "operator+"
    /\ UNCHANGED <<prev, ts, aux, dt, civ, dec, text, ok>>

ShiftMinus ==
    /\ op = "init"
    /\ dto' = DateTimeOffsetMinus(dto, ts)
    /\ op' = "operator-"
    /\ UNCHANGED <<prev, ts, aux, dt, civ, dec, text, ok>>

ShiftPlusAssign ==
    /\ op = "init"
    /\ dto' = DateTimeOffsetPlusAssign(dto, ts)
    /\ op' = "operator+="
    /\ UNCHANGED <<prev, ts, aux, dt, civ, dec, text, ok>>

ShiftMinusAssign ==
    /\ op = "init"
    /\ dto' = DateTimeOffsetMinusAssign(dto, ts)
    /\ op' = "operator-="
    /\ UNCHANGED <<prev, ts, aux, dt, civ, dec, text, ok>>

ShiftNext == ShiftPlus \/ ShiftMinus \/ ShiftPlusAssign \/ ShiftMinusAssign

SpecShift == ShiftInit /\ [][ShiftNext]_vars

\* exact (unbounded) difference of two tick counts
ExactDiff(a, b) == Tk(a.d - b.d, a.s - b.s, a.f - b.f)

\* C15: x + d, x - d, x += d and x -= d keep the offset of x, and the UTC
\* tick count of the result is that of x plus d.ticks for + and +=, minus
\* d.ticks for - and -=.
C15_ShiftKeepsOffset ==
    /\ op \in {"operator+", "operator+="} =>
         /\ dto.offset = prev.offset
         /\ utcTicks(dto) = ExactSum(ExactDiff(prev.dateTime, prev.offset), ts)
    /\ op \in {"operator-", "operator-="} =>
         /\ dto.offset = prev.offset
         /\ utcTicks(dto) = ExactDiff(ExactDiff(prev.dateTime, prev.offset), ts)

\* 15:00 at +05:00 plus 1:30 is 16:30 at +05:00, 11:30 in UTC
C15_Witness ==
    /\ op = "operator+"
    /\ prev = [dateTime |-> Tk(739181, 54000, 0), offset |-> Tk(0, 18000, 0)]
    /\ ts = Tk(0, 5400, 0)
    /\ dto = [dateTime |-> Tk(739181, 59400, 0), offset |-> Tk(0, 18000, 0)]
    /\ utcTicks(dto) = Tk(739181, 41400, 0)

-----------------------------------------------------------------------------
(* DateTimeOffset: calendar arithmetic *)

\* DateTime::timeOfDay()
timeOfDay(ticks) ==
    Tk(0, TkTimeOfDay(ticks).sign * TkTimeOfDay(ticks).s,
          TkTimeOfDay(ticks).sign * TkTimeOfDay(ticks).f)

\* the two carry loops of addMonths over the pair (year, month)
RECURSIVE CarryMonths(_)
CarryMonths(ym) ==
    IF ym.month > 12 THEN CarryMonths([year |-> ym.year + 1, month |-> ym.month - 12])
    ELSE IF ym.month < 1 THEN CarryMonths([year |-> ym.year - 1, month |-> ym.month + 12])
    ELSE ym

\* std::min
StdMin(a, b) == IF b < a THEN b ELSE a

\* the date and the time of day put together again, with the offset of x
AddMonthsResult(x, ym, day) ==
    DateTimeOffsetFrom(
        DateTimePlus(DateTimeFromDate(ym.year, ym.month,
                                      StdMin(day, daysInMonth(ym.year, ym.month))),
                     timeOfDay(x.dateTime)),
        x.offset)

\* the day of month carried over as it is
addMonths_NoClamp(x, months) ==
    LET c == dateComponentsFromTicks(x.dateTime)
        ym == CarryMonths([year |-> c.year, month |-> c.month + months])
    IN  DateTimeOffsetFrom(
            DateTimePlus(DateTimeFromDate(ym.year, ym.month, c.day),
                         timeOfDay(x.dateTime)),
            x.offset)

\* DateTimeOffset::addMonths
addMonths(x, months) ==
    AddMonthsResult(x,
        CarryMonths([year |-> dateComponentsFromTicks(x.dateTime).year,
                     month |-> dateComponentsFromTicks(x.dateTime).month + months]),
        dateComponentsFromTicks(x.dateTime).day)

\* DateTimeOffset::addYears
addYears(x, years) == addMonths(x, years * 12)

\* civil dates, times of day, offsets and counts handed to the interface
MonthsYears == {MIN_YEAR, 2023, 2024, MAX_YEAR}

MonthsMonths == {1, 2, 3, 10, 12}

MonthsDays == {1, 15, 28, 29, 30, 31}

MonthsTimes == {TkZero, Tk(0, 43200, 0), Tk(0, 86399, 9999999)}

MonthsOffsets == {TkZero, Tk(0, 19800, 0), TkNeg(MAX_OFFSET_TICKS)}

MonthsCounts == {-25, -13, -12, -11, -1, 0, 1, 2, 11, 12, 13, 25, 48}

YearsCounts == {-2, -1, 0, 1, 4}

\* dto is x, a value with a valid local reading
MonthsInit ==
    /\ op = "init"
    /\ \E y \in MonthsYears, m \in MonthsMonths, dd \in MonthsDays,
          t \in MonthsTimes, o \in MonthsOffsets :
         /\ isValidDate(y, m, dd)
         /\ dto = DateTimeOffsetFrom(TkAdd(dateToTicks(y, m, dd), t), o)
    /\ prev = dto
    /\ aux = 0
    /\ ts = TkZero
    /\ dt = TkZero
    /\ civ = NoCivil
    /\ dec = NoDate
    /\ text = <<>>
    /\ ok = "none"

\* aux is the number of months added
MonthsAddMonths ==
    /\ op = "init"
    /\ \E n \in MonthsCounts :
         /\ aux' = n
         /\ dto' = addMonths(dto, n)
    /\ op' = "addMonths"
    /\ UNCHANGED <<prev, ts, dt, civ, dec, text, ok>>

MonthsAddYears ==
    /\ op = "init"
    /\ \E k \in YearsCounts :
         /\ aux' = 12 * k
         /\ dto' = addYears(dto, k)
    /\ op' = "addYears"
    /\ UNCHANGED <<prev, ts, dt, civ, dec, text, ok>>

MonthsNext == MonthsAddMonths \/ MonthsAddYears

SpecMonths == MonthsInit /\ [][MonthsNext]_vars

\* the civil year and month reached by carrying n months from (year, month)
TargetYear(c, n) == (c.year * 12 + (c.month - 1) + n) \div 12

TargetMonth(c, n) == ((c.year * 12 + (c.month - 1) + n) % 12) + 1

TargetDate(c, n) ==
    [year |-> TargetYear(c, n),
     month |-> TargetMonth(c, n),
     day |-> IF c.day < daysInMonth(TargetYear(c, n), TargetMonth(c, n))
             THEN c.day
             ELSE daysInMonth(TargetYear(c, n), TargetMonth(c, n))]

\* C16 as stated: for every x with a valid local value and every count n,
\* addMonths(n) (addYears(k) with n = 12k) yields the carried year and month
\* with the day clamped to the target month, the time of day of x and the
\* offset of x.
C16_AddMonthsAnyCount ==
    op \in {"addMonths", "addYears"} =>
        /\ dateComponentsFromTicks(dto.dateTime)
             = TargetDate(dateComponentsFromTicks(prev.dateTime), aux)
        /\ timeOfDay(dto.dateTime) = timeOfDay(prev.dateTime)
        /\ dto.offset = prev.offset

\* C16 (amended): the same whenever the carried year lies in 1..9999.
C16_AddMonthsInRange ==
    (/\ op \in {"addMonths", "addYears"}
     /\ TargetYear(dateComponentsFromTicks(prev.dateTime), aux) \in MIN_YEAR..MAX_YEAR)
    => /\ dateComponentsFromTicks(dto.dateTime)
             = TargetDate(dateComponentsFromTicks(prev.dateTime), aux)
       /\ timeOfDay(dto.dateTime) = timeOfDay(prev.dateTime)
       /\ dto.offset = prev.offset

\* 2023-12-31T12:00:00+05:30 plus two months is 2024-02-29T12:00:00+05:30
C16_Witness ==
    /\ op = "addMonths"
    /\ aux = 2
    /\ prev = [dateTime |-> TkAdd(dateToTicks(2023, 12, 31), Tk(0, 43200, 0)),
               offset |-> Tk(0, 19800, 0)]
    /\ dto = [dateTime |-> TkAdd(dateToTicks(2024, 2, 29), Tk(0, 43200, 0)),
              offset |-> Tk(0, 19800, 0)]

-----------------------------------------------------------------------------
(* TimeSpan text: order and repetition of the designators after 'T' *)

\* the longest run of components after 'T'
MaxComponents == 4

OrderHeads == {<<"P">>, <<"-", "P">>, <<"P", "3", "D">>}

OrderNumbers == {<<"2">>, <<"4", ".", "5">>}

OrderDesignators == {"H", "M", "S"}

\* n components: numbers nums[i] followed by designators des[i]
RECURSIVE OrderComponents(_, _, _)
OrderComponents(nums, des, i) ==
    IF i > Len(des) THEN <<>>
    ELSE nums[i] \o <<des[i]>> \o OrderComponents(nums, des, i + 1)

\* aux is the sequence of designators written after 'T'
OrderInit ==
    /\ op = "init"
    /\ \E n \in 1..MaxComponents :
         \E des \in [1..n -> OrderDesignators], nums \in [1..n -> OrderNumbers],
            head \in OrderHeads :
           /\ aux = des
           /\ text = head \o <<"T">> \o OrderComponents(nums, des, 1)
    /\ ts = TimeSpanSentinel
    /\ prev = TimeSpanSentinel
    /\ ok = FALSE
    /\ civ = NoCivil
    /\ dec = NoDate
    /\ dt = TkZero
    /\ dto = NoDto

\* ok = TimeSpan::fromString( text, result )
OrderFromString ==
    /\ op = "init"
    /\ \E r \in {TimeSpanFromString(text, ts)} :
         /\ ok' = r.ret
         /\ ts' = r.result
    /\ op' = "fromString"
    /\ UNCHANGED <<prev, text, aux, civ, dec, dt, dto>>

\* the std::optional overload
OrderFromStringOpt ==
    /\ op = "init"
    /\ \E r \in {TimeSpanFromStringOpt(text)} :
         /\ ok' = r.has_value
         /\ ts' = r.value
    /\ op' = "fromString(optional)"
    /\ UNCHANGED <<prev, text, aux, civ, dec, dt, dto>>

OrderNext == OrderFromString \/ OrderFromStringOpt

SpecOrder == OrderInit /\ [][OrderNext]_vars

\* H before M before S
DesignatorRank(c) == CASE c = "H" -> 1 [] c = "M" -> 2 [] c = "S" -> 3

\* every designator ranks above the one before it: in order and not repeated
InOrder(des) ==
    \A i \in 1..(Len(des) - 1) : DesignatorRank(des[i]) < DesignatorRank(des[i + 1])

\* C17: a duration string whose components after 'T' are out of
\* H-then-M-then-S order or repeat a designator fails to parse, and every
\* non-empty subset of nH, nM, nS written in that order parses.
C17_OrderAndRepetition ==
    op # "init" => (ok <=> InOrder(aux))

\* "PT2H2H" has been rejected
C17_Witness ==
    /\ op = "fromString"
    /\ text = <<"P", "T", "2", "H", "2", "H">>
    /\ ok = FALSE
    /\ ts = TimeSpanSentinel

\* "PT2H4.5M2S" has been accepted as 2 h 4 min 32 s
C17_WitnessInOrder ==
    /\ op = "fromString"
    /\ text = <<"P", "T", "2", "H", "4", ".", "5", "M", "2", "S">>
    /\ ok = TRUE
    /\ ts = Tk(0, 7472, 0)

-----------------------------------------------------------------------------
(* TimeSpan text: what the date part before 'T' may hold *)

DatePartHeads == {<<"P">>, <<"-", "P">>}

\* date parts: empty, days alone, and years, months, weeks or time
\* designators with and without days
DatePartTexts ==
    {<<>>, <<"1", "D">>, <<"1", "Y">>, <<"1", "M">>, <<"1", "H">>, <<"1", "S">>,
     <<"1", "Y", "2", "D">>, <<"2", "D", "1", "Y">>, <<"1", "M", "1", "D">>,
     <<"1", "D", "2", "H">>, <<"1", "D", "3", "0", "M">>, <<"2", "D", "5", "S">>,
     <<"1", "Y", "2", "M", "3", "D">>, <<"Y">>}

DatePartTails ==
    {<<>>, <<"T", "1", "H">>, <<"T", "1", "H", "3", "0", "M">>,
     <<"T", "4", ".", "5", "S">>, <<"T", "1", "H", "1", "Y">>}

DatePartInit ==
    /\ op = "init"
    /\ \E head \in DatePartHeads, date \in DatePartTexts, tail \in DatePartTails :
         text = head \o date \o tail
    /\ ts = TimeSpanSentinel
    /\ prev = TimeSpanSentinel
    /\ aux = "none"
    /\ ok = FALSE
    /\ civ = NoCivil
    /\ dec = NoDate
    /\ dt = TkZero
    /\ dto = NoDto

\* ok = TimeSpan::fromString( text, result )
DatePartFromString ==
    /\ op = "init"
    /\ \E r \in {TimeSpanFromString(text, ts)} :
         /\ ok' = r.ret
         /\ ts' = r.result
    /\ op' = "fromString"
    /\ UNCHANGED <<prev, text, aux, civ, dec, dt, dto>>

\* the std::optional overload
DatePartFromStringOpt ==
    /\ op = "init"
    /\ \E r \in {TimeSpanFromStringOpt(text)} :
         /\ ok' = r.has_value
         /\ ts' = r.value
    /\ op' = "fromString(optional)"
    /\ UNCHANGED <<prev, text, aux, civ, dec, dt, dto>>

DatePartNext == DatePartFromString \/ DatePartFromStringOpt

SpecDatePart == DatePartInit /\ [][DatePartNext]_vars

\* str holds a 'Y', or an 'H', 'M' or 'S' with no 'T' before it (an 'M'
\* before 'T' is the month designator)
HasForbiddenDesignator(str) ==
    \E i \in 1..Len(str) :
        \/ str[i] = "Y"
        \/ /\ str[i] \in {"H", "M", "S"}
           /\ \A j \in 1..(i - 1) : str[j] # "T"

\* C18: every string that contains a Y designator, a month designator, or
\* an H, M or S designator not preceded by T fails the parse, whatever else
\* it contains.
C18_DatePartOnlyDays ==
    (op # "init" /\ HasForbiddenDesignator(text)) => ok = FALSE

-----------------------------------------------------------------------------
(* TimeSpan text: the canonical form written by toString *)

\* tick counts handed to toString: the sample durations of either sign and
\* both ends of the 64-bit range
FormatTicks ==
    {Tk(d, sec, f) : d \in SpanDays, sec \in SpanSeconds, f \in SpanFractions}
    \cup {Tk(-d, -sec, -f) : d \in SpanDays, sec \in SpanSeconds, f \in SpanFractions}
    \cup {INT64_MAX, INT64_MIN, TkAdd(INT64_MIN, Tk(0, 0, 1))}

FormatInit ==
    /\ op = "init"
    /\ prev \in FormatTicks
    /\ text = <<>>
    /\ ts = TimeSpanSentinel
    /\ aux = "none"
    /\ ok = FALSE
    /\ civ = NoCivil
    /\ dec = NoDate
    /\ dt = TkZero
    /\ dto = NoDto

\* text = d.toString()
FormatToString ==
    /\ op = "init"
    /\ text' = TimeSpanToString(prev)
    /\ op' = "toString"
    /\ UNCHANGED <<prev, ts, aux, ok, civ, dec, dt, dto>>

\* os << d
FormatStreamOut ==
    /\ op = "init"
    /\ text' = TimeSpanToString(prev)
    /\ op' = "operator<<"
    /\ UNCHANGED <<prev, ts, aux, ok, civ, dec, dt, dto>>

FormatNext == FormatToString \/ FormatStreamOut

SpecFormat == FormatInit /\ [][FormatNext]_vars

\* |ticks| in exact arithmetic, as days, seconds of the day and ticks of the
\* second
Magnitude(t) == IF t.d < 0 THEN Tk(-t.d, -t.s, -t.f) ELSE t

\* a component n with its designator, present only when n is not zero
Piece(n, designator) == IF n # 0 THEN Dec(n) \o <<designator>> ELSE <<>>

\* seconds[.fraction]S, present when the seconds or the fraction are not zero
SecondsPiece(seconds, fraction) ==
    IF seconds = 0 /\ fraction = 0 THEN <<>>
    ELSE IF fraction = 0 THEN Dec(seconds) \o <<"S">>
    ELSE Dec(seconds) \o <<".">> \o StripTrailingZeros(PutInt(fraction, 7)) \o <<"S">>

TimePieces(m) ==
    Piece(m.s \div SECONDS_PER_HOUR, "H")
    \o Piece((m.s % SECONDS_PER_HOUR) \div SECONDS_PER_MINUTE, "M")
    \o SecondsPiece(m.s % SECONDS_PER_MINUTE, m.f)

CanonicalText(t) ==
    IF t = TkZero THEN <<"P", "T", "0", "S">>
    ELSE (IF t.d < 0 THEN <<"-">> ELSE <<>>)
         \o <<"P">>
         \o Piece(Magnitude(t).d, "D")
         \o (IF TimePieces(Magnitude(t)) # <<>>
             THEN <<"T">> \o TimePieces(Magnitude(t))
             ELSE <<>>)

\* C19: for every duration d, d.toString() is ["-"] "P" [days "D"]
\* ["T" [hours "H"] [minutes "M"] [seconds[.fraction] "S"]] computed from
\* |ticks|, each component present exactly when it is not zero, the fraction
\* of at most 7 digits without trailing zeros, "T" only before a time
\* component, and "PT0S" for the zero duration.
C19_CanonicalText ==
    op # "init" => text = CanonicalText(prev)

-----------------------------------------------------------------------------
(* DateTimeOffset: ISO 8601 formatting *)

\* DateTimeOffset::totalOffsetMinutes(): static_cast<std::int32_t>( m_offset.minutes() );
\* minutes() is the double ticks / TICKS_PER_MINUTE, and below 2^23 minutes
\* its truncation is the truncated integer quotient
totalOffsetMinutes(x) ==
    IF x.offset.d < 0
    THEN -(Magnitude(x.offset).d * HOURS_PER_DAY * MINUTES_PER_HOUR
           + Magnitude(x.offset).s \div SECONDS_PER_MINUTE)
    ELSE x.offset.d * HOURS_PER_DAY * MINUTES_PER_HOUR
         + x.offset.s \div SECONDS_PER_MINUTE

\* DateTimeOffset::microsecond() and nanosecond()
microsecond(x) ==
    TkTimeOfDay(x.dateTime).sign
    * ((TkTimeOfDay(x.dateTime).f % TICKS_PER_MILLISECOND) \div 10)

nanosecond(x) ==
    TkTimeOfDay(x.dateTime).sign * (TkTimeOfDay(x.dateTime).f % 10) * 100

\* a designator that always carries the plus sign
appendOffset_Unsigned(offsetMinutes) ==
    IF offsetMinutes = 0 THEN <<"Z">>
    ELSE <<"+">>
         \o PutInt((IF offsetMinutes < 0 THEN -offsetMinutes ELSE offsetMinutes)
                   \div 60, 2)
         \o <<":">>
         \o PutInt((IF offsetMinutes < 0 THEN -offsetMinutes ELSE offsetMinutes)
                   % 60, 2)

\* internal::appendOffset
appendOffset(offsetMinutes) ==
    IF offsetMinutes = 0 THEN <<"Z">>
    ELSE (IF offsetMinutes >= 0 THEN <<"+">> ELSE <<"-">>)
         \o PutInt((IF offsetMinutes < 0 THEN -offsetMinutes ELSE offsetMinutes)
                   \div 60, 2)
         \o <<":">>
         \o PutInt((IF offsetMinutes < 0 THEN -offsetMinutes ELSE offsetMinutes)
                   % 60, 2)

\* "Add fractional seconds for extended format"
FractionGroups(ms, us, ns) ==
    IF ms > 0 \/ us > 0 \/ ns > 0
    THEN <<".">> \o PutInt(ms, 3)
         \o (IF us > 0 \/ ns > 0
             THEN PutInt(us, 3) \o (IF ns > 0 THEN PutInt(ns \div 100, 1) ELSE <<>>)
             ELSE <<>>)
    ELSE <<>>

\* internal::formatIso8601
formatIso8601(x, format) ==
    DateText(dateComponentsFromTicks(x.dateTime)) \o <<"T">>
    \o ClockText(timeComponentsFromTicks(x.dateTime))
    \o (IF format = "Iso8601Extended"
        THEN FractionGroups(timeComponentsFromTicks(x.dateTime).millisecond,
                            microsecond(x), nanosecond(x))
        ELSE <<>>)
    \o appendOffset(totalOffsetMinutes(x))

\* DateTimeOffset::toString() and DateTimeOffset::toIso8601Extended()
DateTimeOffsetToString(x) == formatIso8601(x, "Iso8601Basic")

DateTimeOffsetToIso8601Extended(x) == formatIso8601(x, "Iso8601Extended")

\* local dates, times of day, fractions of a second in ticks and offsets
OffsetTextDates == {Tk(0, 0, 0), Tk(738899, 0, 0), Tk(739309, 0, 0),
                    Tk(MAX_DATETIME_TICKS.d, 0, 0)}

OffsetTextTimes == {0, 45045, 86399}

OffsetTextFractions == {0, 1, 50, 1200000, 1230000, 1234560, 1234567, 5000000}

OffsetTextOffsets ==
    {TkZero, Tk(0, 7200, 0), Tk(0, -18000, 0), Tk(0, 19800, 0),
     MAX_OFFSET_TICKS, TkNeg(MAX_OFFSET_TICKS)}

OffsetTextInit ==
    /\ op = "init"
    /\ \E day \in OffsetTextDates, sec \in OffsetTextTimes, f \in OffsetTextFractions,
          o \in OffsetTextOffsets :
         dto = DateTimeOffsetFrom(Tk(day.d, sec, f), o)
    /\ text = <<>>
    /\ prev = NoDto
    /\ aux = "none"
    /\ ts = TkZero
    /\ dt = TkZero
    /\ civ = NoCivil
    /\ dec = NoDate
    /\ ok = "none"

\* text = x.toString(); aux is the format
OffsetTextBasic ==
    /\ op = "init"
    /\ text' = DateTimeOffsetToString(dto)
    /\ aux' = "Iso8601Basic"
    /\ op' = "toString"
    /\ UNCHANGED <<dto, prev, ts, dt, civ, dec, ok>>

\* text = x.toIso8601Extended()
OffsetTextExtended ==
    /\ op = "init"
    /\ text' = DateTimeOffsetToIso8601Extended(dto)
    /\ aux' = "Iso8601Extended"
    /\ op' = "toIso8601Extended"
    /\ UNCHANGED <<dto, prev, ts, dt, civ, dec, ok>>

OffsetTextNext == OffsetTextBasic \/ OffsetTextExtended

SpecOffsetText == OffsetTextInit /\ [][OffsetTextNext]_vars

\* +HH:MM or -HH:MM for a whole number of minutes
SignedHoursMinutes(offset) ==
    (IF offset.d < 0 THEN <<"-">> ELSE <<"+">>)
    \o PutInt(Magnitude(offset).s \div SECONDS_PER_HOUR, 2) \o <<":">>
    \o PutInt((Magnitude(offset).s % SECONDS_PER_HOUR) \div SECONDS_PER_MINUTE, 2)

\* str with its last character, the Z, replaced for a non-zero offset
WithOffsetSuffix(str, offset) ==
    IF offset = TkZero THEN str
    ELSE SubSeq(str, 1, Len(str) - 1) \o SignedHoursMinutes(offset)

\* C20: for every x with a valid local value, the basic and the extended
\* string of x are the strings DateTime writes for the local value in the
\* same format, with the trailing Z replaced by +HH:MM or -HH:MM when the
\* offset is not zero and kept when it is zero.
C20_SameTextAsDateTime ==
    op # "init" => text = WithOffsetSuffix(DateTimeToString(dto.dateTime, aux), dto.offset)

\* the basic strings do agree
BasicTextAgrees ==
    op = "toString" => text = WithOffsetSuffix(DateTimeToString(dto.dateTime, aux), dto.offset)

-----------------------------------------------------------------------------
(* DateTime text: a trailing zone suffix is read over and dropped *)

\* date-time strings without a suffix: dates alone, date-times, fractions
\* and single-digit fields
SuffixBases ==
    {DateTimeToString(Tk(d, 0, 0), "DateOnly") : d \in {0, 738899, 3652058}}
    \cup {LET str == DateTimeToString(Tk(d, sec, 0), "Iso8601Basic")
          IN  SubSeq(str, 1, Len(str) - 1) :
            d \in {0, 738899, 3652058}, sec \in {0, 45045, 86399}}
    \cup {LET str == DateTimeToString(Tk(d, 45045, f), "Iso8601Extended")
          IN  SubSeq(str, 1, Len(str) - 1) :
            d \in {738899, 3652058}, f \in {0, 1, 5000000, 9999999}}
    \cup {<<"2", "0", "2", "4", "-", "1", "-", "5", "T", "1", ":", "2", ":", "3">>}

SuffixHours == {0, 5, 14}

SuffixMinutes == {0, 30}

\* Z, +HH:MM, -HH:MM, +HHMM, -HHMM, +HH and -HH
SuffixTexts ==
    {<<"Z">>}
    \cup {DesignatorText(sign, hours, minutes, form) :
            sign \in {"+", "-"}, hours \in SuffixHours, minutes \in SuffixMinutes,
            form \in {"HH:MM", "HHMM"}}
    \cup {DesignatorText(sign, hours, 0, "HH") : sign \in {"+", "-"}, hours \in SuffixHours}

\* text is S and aux.suffix is X; prev and dt are the callers' values
SuffixInit ==
    /\ op = "init"
    /\ text \in SuffixBases
    /\ \E x \in SuffixTexts : aux = [suffix |-> x, bare |-> FALSE]
    /\ prev = DateTimeSentinel
    /\ dt = DateTimeSentinel
    /\ ok = FALSE
    /\ ts = TkZero
    /\ civ = NoCivil
    /\ dec = NoDate
    /\ dto = NoDto

\* aux.bare = DateTime::fromString( S, prev )
SuffixParseBare ==
    /\ op = "init"
    /\ \E r \in {DateTimeFromString(text, prev)} :
         /\ aux' = [aux EXCEPT !.bare = r.ret]
         /\ prev' = r.result
    /\ op' = "fromString(S)"
    /\ UNCHANGED <<text, dt, ok, ts, civ, dec, dto>>

\* ok = DateTime::fromString( S + X, dt )
SuffixParseSuffixed ==
    /\ op = "fromString(S)"
    /\ \E r \in {DateTimeFromString(text \o aux.suffix, dt)} :
         /\ ok' = r.ret
         /\ dt' = r.result
    /\ op' = "fromString(S + X)"
    /\ UNCHANGED <<text, aux, prev, ts, civ, dec, dto>>

SuffixNext == SuffixParseBare \/ SuffixParseSuffixed

SpecSuffix == SuffixInit /\ [][SuffixNext]_vars

\* C21: for every valid date-time string S and every suffix X among Z,
\* +HH:MM, -HH:MM, +HHMM, -HHMM, +HH and -HH, parsing S followed by X
\* succeeds and yields exactly the ticks of parsing S alone.
C21_SuffixDiscarded ==
    /\ op # "init" => aux.bare
    /\ op = "fromString(S + X)" => (ok /\ dt = prev /\ dt # DateTimeSentinel)

\* "2024-01-15T12:30:45" and "2024-01-15T12:30:45-05:30" both read as the
\* same local 12:30:45
C21_Witness ==
    /\ op = "fromString(S + X)"
    /\ text = <<"2", "0", "2", "4", "-", "0", "1", "-", "1", "5", "T",
                "1", "2", ":", "3", "0", ":", "4", "5">>
    /\ aux.suffix = <<"-", "0", "5", ":", "3", "0">>
    /\ ok
    /\ dt = Tk(738899, 45045, 0)
    /\ prev = Tk(738899, 45045, 0)

-----------------------------------------------------------------------------
(* DateTimeOffset: construction from (DateTime, TimeSpan) and isValid *)

\* DateTimeOffset::isValid()
DateTimeOffsetIsValid(x) == DateTimeIsValid(x.dateTime) /\ isValidOffset(x.offset)

\* local readings at and around both ends of the DateTime range
ValidLocals ==
    {Tk(0, 0, -1), TkZero, Tk(0, 0, 1), UNIX_EPOCH_TICKS, Tk(739181, 54000, 0),
     TkSub(MAX_DATETIME_TICKS, Tk(0, 0, 1)), MAX_DATETIME_TICKS,
     TkAdd(MAX_DATETIME_TICKS, Tk(0, 0, 1)), Tk(-1, 0, 0), Tk(3652060, 0, 0)}

\* offsets at and around +/-14:00, and far outside
ValidOffsets ==
    {TkZero, Tk(0, 0, 1), Tk(0, 19800, 0), Tk(0, -18000, 0),
     TkSub(MAX_OFFSET_TICKS, Tk(0, 0, 1)), MAX_OFFSET_TICKS,
     TkAdd(MAX_OFFSET_TICKS, Tk(0, 0, 1)),
     TkAdd(TkNeg(MAX_OFFSET_TICKS), Tk(0, 0, 1)), TkNeg(MAX_OFFSET_TICKS),
     TkSub(TkNeg(MAX_OFFSET_TICKS), Tk(0, 0, 1)),
     Tk(0, 54000, 0), Tk(1, 0, 0), Tk(-2, 0, 0)}

\* aux holds the constructor's arguments
ValidInit ==
    /\ op = "DateTimeOffset()"
    /\ dto = DateTimeOffsetDefault
    /\ aux = [dateTime |-> DateTimeMin, offset |-> TkZero]
    /\ ok = TRUE
    /\ prev = NoDto
    /\ ts = TkZero
    /\ dt = TkZero
    /\ civ = NoCivil
    /\ dec = NoDate
    /\ text = <<>>

\* DateTimeOffset x{ dateTime, offset }
ValidConstruct ==
    /\ op # "DateTimeOffset(dateTime, offset)"
    /\ \E i \in ValidLocals, o \in ValidOffsets :
         /\ aux' = [dateTime |-> i, offset |-> o]
         /\ dto' = DateTimeOffsetFrom(DateTimeFromTicks(i), o)
    /\ op' = "DateTimeOffset(dateTime, offset)"
    /\ UNCHANGED <<ok, prev, ts, dt, civ, dec, text>>

\* ok = x.isValid()
ValidIsValid ==
    /\ op # "isValid"
    /\ ok' = DateTimeOffsetIsValid(dto)
    /\ op' = "isValid"
    /\ UNCHANGED <<dto, aux, prev, ts, dt, civ, dec, text>>

ValidNext == ValidConstruct \/ ValidIsValid

SpecValid == ValidInit /\ [][ValidNext]_vars

\* 0 <= ticks <= MAX_TICKS: MAX_TICKS is the last tick of day 3652058
LocalInRange(t) == t.d >= 0 /\ t.d <= 3652058

\* |offset| <= 14 hours, on the seconds and ticks of the record: +14:00 is
\* second 50400 of day 0, -14:00 is second 36000 of day -1
OffsetInRange(o) ==
    \/ o.d = 0 /\ (o.s < 50400 \/ (o.s = 50400 /\ o.f = 0))
    \/ o.d = -1 /\ o.s >= 36000

\* C22: the (DateTime, TimeSpan) constructor stores any offset unchanged,
\* and isValid() is true exactly when the local ticks lie in [0, MAX_TICKS]
\* and |offset| <= 14 hours.
C22_ValidityIsAdvisory ==
    /\ op # "DateTimeOffset()" => dto = aux
    /\ op = "isValid" => (ok <=> (LocalInRange(dto.dateTime) /\ OffsetInRange(dto.offset)))

\* an offset of +15:00 has been stored as it is and isValid() reports it
C22_Witness ==
    /\ op = "isValid"
    /\ dto = [dateTime |-> Tk(739181, 54000, 0), offset |-> Tk(0, 54000, 0)]
    /\ aux = dto
    /\ ok = FALSE

-----------------------------------------------------------------------------
(* DateTimeOffset: Windows FILETIME *)

\* the guard against dates before the epoch left out
toFILETIME_Unguarded(x) == TkSub(utcTicks(x), MICROSOFT_FILETIME_EPOCH_TICKS)

\* DateTimeOffset::toFILETIME()
toFILETIME(x) ==
    IF TkLess(utcTicks(x), MICROSOFT_FILETIME_EPOCH_TICKS) THEN TkZero
    ELSE TkSub(utcTicks(x), MICROSOFT_FILETIME_EPOCH_TICKS)

\* local readings around 1601-01-01T00:00:00 and at the ends of the range
FileTimeLocals ==
    {TkZero, Tk(1, 0, 0),
     TkSub(MICROSOFT_FILETIME_EPOCH_TICKS, Tk(0, 50400, 0)),
     TkSub(MICROSOFT_FILETIME_EPOCH_TICKS, Tk(0, 18000, 0)),
     TkSub(MICROSOFT_FILETIME_EPOCH_TICKS, Tk(0, 0, 1)),
     MICROSOFT_FILETIME_EPOCH_TICKS,
     TkAdd(MICROSOFT_FILETIME_EPOCH_TICKS, Tk(0, 0, 1)),
     TkAdd(MICROSOFT_FILETIME_EPOCH_TICKS, Tk(0, 18000, 0)),
     TkAdd(MICROSOFT_FILETIME_EPOCH_TICKS, Tk(0, 50400, 0)),
     UNIX_EPOCH_TICKS, Tk(739181, 54000, 1234567), MAX_DATETIME_TICKS}

FileTimeOffsets ==
    {TkZero, Tk(0, 0, 1), Tk(0, 0, -1), Tk(0, 18000, 0), Tk(0, -18000, 0),
     Tk(0, 19800, 0), MAX_OFFSET_TICKS, TkNeg(MAX_OFFSET_TICKS)}

FileTimeInit ==
    /\ op = "init"
    /\ \E i \in FileTimeLocals, o \in FileTimeOffsets :
         dto = DateTimeOffsetFrom(DateTimeFromTicks(i), o)
    /\ aux = TkZero
    /\ ok = "none"
    /\ prev = NoDto
    /\ ts = TkZero
    /\ dt = TkZero
    /\ civ = NoCivil
    /\ dec = NoDate
    /\ text = <<>>

\* aux = x.toFILETIME()
FileTimeToFILETIME ==
    /\ op = "init"
    /\ aux' = toFILETIME(dto)
    /\ op' = "toFILETIME"
    /\ UNCHANGED <<dto, ok, prev, ts, dt, civ, dec, text>>

\* dt = x.utcDateTime(), the instant toFILETIME counts from the epoch
FileTimeUtcDateTime ==
    /\ op = "init"
    /\ dt' = utcDateTime(dto)
    /\ op' = "utcDateTime"
    /\ UNCHANGED <<dto, aux, ok, prev, ts, civ, dec, text>>

FileTimeNext == FileTimeToFILETIME \/ FileTimeUtcDateTime

SpecFileTime == FileTimeInit /\ [][FileTimeNext]_vars

\* 1601-01-01T00:00:00 is day 584388: 504911232000000000 ticks
AtOrAfter1601(x) ==
    ExactDiff(x.dateTime, x.offset).d >= 584388

\* C23: toFILETIME() is utcTicks() - 504911232000000000 when the UTC
\* instant is at or after 1601-01-01T00:00:00, and 0, never a negative
\* number, when it is earlier.
C23_FileTimeFromEpoch ==
    op = "toFILETIME" =>
        /\ AtOrAfter1601(dto) =>
             aux = ExactDiff(ExactDiff(dto.dateTime, dto.offset), Tk(584388, 0, 0))
        /\ ~AtOrAfter1601(dto) => aux = TkZero
        /\ aux.d >= 0

\* 1601-01-01T00:00:00 at an offset of one tick is one tick before the
\* epoch in UTC
C23_Witness ==
    /\ op = "toFILETIME"
    /\ dto = [dateTime |-> Tk(584388, 0, 0), offset |-> Tk(0, 0, 1)]
    /\ utcTicks(dto) = Tk(584387, 86399, 9999999)
    /\ aux = TkZero

-----------------------------------------------------------------------------
(* The current instant: DateTime::utcNow / now and DateTimeOffset::utcNow /
   now.  The platform is a clock reading (the distance of
   system_clock::now() from the Unix epoch, in ticks) and a time zone that
   reports the same local offset, in seconds, for every hour. *)

\* internal::systemTimezoneOffset( dateTime ): TimeSpan::fromSeconds of the
\* offset the platform reports for the zone
systemTimezoneOffset(dateTime, zoneSeconds) ==
    TimeSpanFromSeconds(DFromInt(zoneSeconds))

\* DateTime::utcNow() and DateTime::now()
DateTimeUtcNow(clock) == DateTimeFromChrono(clock)

DateTimeNow(clock, zoneSeconds) ==
    DateTimePlus(DateTimeUtcNow(clock),
                 systemTimezoneOffset(DateTimeUtcNow(clock), zoneSeconds))

\* DateTimeOffset::now() and DateTimeOffset::utcNow(): both start from
\* DateTime::now()
DateTimeOffsetNow(clock, zoneSeconds) ==
    DateTimeOffsetFrom(
        DateTimePlus(DateTimeNow(clock, zoneSeconds),
                     systemTimezoneOffset(DateTimeNow(clock, zoneSeconds),
                                          zoneSeconds)),
        systemTimezoneOffset(DateTimeNow(clock, zoneSeconds), zoneSeconds))

DateTimeOffsetUtcNow(clock, zoneSeconds) ==
    DateTimeOffsetFrom(DateTimeNow(clock, zoneSeconds), TkZero)

\* clock readings (since the Unix epoch) and zones of the platform
NowClocks ==
    { Tk(d, s, f) : d \in {19737, 20000, 20393}, s \in {0, 43200, 86399},
                    f \in {0, 9999999} }

NowZones == {-43200, -18000, -12600, 0, 3600, 19800, 50400}

NowInit ==
    /\ op = "init"
    /\ aux \in [clock : NowClocks, zone : NowZones]
    /\ dto = DateTimeOffsetDefault
    /\ dt = DateTimeSentinel
    /\ civ = 0 /\ dec = 0 /\ ts = TkZero /\ text = "" /\ ok = FALSE
    /\ prev = DateTimeSentinel

NowDateTimeNow ==
    /\ op # "DateTime::now"
    /\ op' = "DateTime::now"
    /\ dt' = DateTimeNow(aux.clock, aux.zone)
    /\ UNCHANGED <<civ, dec, ts, dto, text, ok, prev, aux>>

NowUtcNow ==
    /\ op # "DateTimeOffset::utcNow"
    /\ op' = "DateTimeOffset::utcNow"
    /\ dto' = DateTimeOffsetUtcNow(aux.clock, aux.zone)
    /\ UNCHANGED <<civ, dt, dec, ts, text, ok, prev, aux>>

NowNow ==
    /\ op # "DateTimeOffset::now"
    /\ op' = "DateTimeOffset::now"
    /\ dto' = DateTimeOffsetNow(aux.clock, aux.zone)
    /\ UNCHANGED <<civ, dt, dec, ts, text, ok, prev, aux>>

NowNext == NowDateTimeNow \/ NowUtcNow \/ NowNow

SpecNow == NowInit /\ [][NowNext]_vars

\* the instant U the platform clock shows, and the offset L of its zone
ClockInstant(clock) == ExactSum(UNIX_EPOCH_TICKS, clock)

ZoneOffset(zoneSeconds) == Tk(0, zoneSeconds, 0)

\* C24: with the platform clock at U and the local offset L, utcNow() has the
\* offset zero and utcTicks() = U, and now() has the offset L and
\* utcTicks() = U.
C24_NowIsTheClock ==
    /\ op = "DateTimeOffset::utcNow" =>
          /\ dto.offset = TkZero
          /\ utcTicks(dto) = ClockInstant(aux.clock)
    /\ op = "DateTimeOffset::now" =>
          /\ dto.offset = ZoneOffset(aux.zone)
          /\ utcTicks(dto) = ClockInstant(aux.clock)

-----------------------------------------------------------------------------
(* internal::TimeZoneOffsetCache: one cached hour key and one cached offset,
   each in an atomic of its own, shared by every caller of
   systemTimezoneOffset.  A call is a sequence of steps on the two atomics;
   steps of different threads interleave. *)

\* DateTime::toEpochSeconds()
toEpochSeconds(ticks) ==
    TkDays(TkSub(ticks, UNIX_EPOCH_TICKS)) * SECONDS_PER_DAY
    + TkTimeOfDay(TkSub(ticks, UNIX_EPOCH_TICKS)).sign
      * TkTimeOfDay(TkSub(ticks, UNIX_EPOCH_TICKS)).s

\* the platform's zone: one hour east of UTC until the daylight-saving
\* transition of 2024-03-31T01:00:00 UTC, two hours east from then on
ZoneOffsetAt(unixSeconds) ==
    IF unixSeconds < toEpochSeconds(DateTimeFromDateAndTime(2024, 3, 31, 1, 0, 0))
    THEN SECONDS_PER_HOUR
    ELSE 2 * SECONDS_PER_HOUR

\* gmtime_r and localtime_r: the broken-down time of a time_t
BrokenDownTime(seconds) ==
    [tm_mday |-> dateComponentsFromTicks(DateTimeFromEpochSeconds(seconds)).day,
     tm_hour |-> timeComponentsFromTicks(DateTimeFromEpochSeconds(seconds)).hour,
     tm_min |-> timeComponentsFromTicks(DateTimeFromEpochSeconds(seconds)).minute,
     tm_sec |-> timeComponentsFromTicks(DateTimeFromEpochSeconds(seconds)).second]

PlatformGmtime(systemTimeT) == BrokenDownTime(systemTimeT)

PlatformLocaltime(systemTimeT) ==
    BrokenDownTime(systemTimeT + ZoneOffsetAt(systemTimeT))

SecondsOfDay(tm) ==
    tm.tm_hour * SECONDS_PER_HOUR + tm.tm_min * SECONDS_PER_MINUTE + tm.tm_sec

\* TimeZoneOffsetCache::computeOffset( dateTime ), the platform computation
computeOffset(dateTime) ==
    LET utcTm == PlatformGmtime(toEpochSeconds(dateTime))
        localTm == PlatformLocaltime(toEpochSeconds(dateTime))
        offsetSeconds == SecondsOfDay(localTm) - SecondsOfDay(utcTm)
    IN  IF localTm.tm_mday # utcTm.tm_mday
        THEN IF localTm.tm_mday > utcTm.tm_mday
             THEN offsetSeconds + SECONDS_PER_DAY
             ELSE offsetSeconds - SECONDS_PER_DAY
        ELSE offsetSeconds

\* a key that leaves the hour out
currentHourKey_DayOnly(dateTime) ==
    dateComponentsFromTicks(dateTime).year * 1000000
    + dateComponentsFromTicks(dateTime).month * 10000
    + dateComponentsFromTicks(dateTime).day * 100

\* the cache key of offset(): year * 1000000 + month * 10000 + day * 100 + hour
currentHourKey(dateTime) ==
    dateComponentsFromTicks(dateTime).year * 1000000
    + dateComponentsFromTicks(dateTime).month * 10000
    + dateComponentsFromTicks(dateTime).day * 100
    + timeComponentsFromTicks(dateTime).hour

\* TimeZoneOffsetCache::TimeZoneOffsetCache()
TimeZoneOffsetCacheNew == [m_cachedHour |-> 0, m_offsetSeconds |-> 0]

\* the threads that share the cache, the most calls of offset() one behaviour
\* makes, and the dates asked about: two in the last hour before the
\* transition, one in the hour after it, one a day earlier
CacheThreads == {1, 2}

MaxCalls == 3

CacheDates ==
    { DateTimeFromDateAndTime(2024, 3, 31, 0, 30, 0),
      DateTimeFromDateAndTime(2024, 3, 31, 0, 45, 0),
      DateTimeFromDateAndTime(2024, 3, 31, 1, 15, 0),
      DateTimeFromDateAndTime(2024, 3, 30, 1, 15, 0) }

\* a thread outside offset()
CacheIdle ==
    [pc |-> "idle", dateTime |-> DateTimeMin, currentHourKey |-> 0,
     newOffset |-> 0, ret |-> TkZero]

\* civ: the position and the locals of every thread; aux: the two atomics;
\* dec: the calls made; prev: the date and the result of the most recent
\* platform computation, and how many there were
CacheInit ==
    /\ op = "init"
    /\ civ = [t \in CacheThreads |-> CacheIdle]
    /\ aux = TimeZoneOffsetCacheNew
    /\ dec = 0
    /\ prev = [lastDate |-> DateTimeMin, lastOffset |-> 0, computations |-> 0]
    /\ dt = DateTimeSentinel /\ ts = TkZero /\ text = "" /\ ok = FALSE
    /\ dto = DateTimeOffsetDefault

\* offset( dateTime ) is entered: the key is built from the date's fields
CacheCall(t, dateTime) ==
    /\ civ[t].pc \in {"idle", "returned"}
    /\ dec < MaxCalls
    /\ op' = "offset"
    /\ dec' = dec + 1
    /\ civ' = [civ EXCEPT ![t] =
                  [pc |-> "load m_cachedHour", dateTime |-> dateTime,
                   currentHourKey |-> currentHourKey(dateTime),
                   newOffset |-> 0, ret |-> TkZero]]
    /\ UNCHANGED <<dt, ts, dto, text, ok, prev, aux>>

\* if ( m_cachedHour.load( acquire ) == currentHourKey )
CacheLoadHour(t) ==
    /\ civ[t].pc = "load m_cachedHour"
    /\ op' = "load m_cachedHour"
    /\ civ' = [civ EXCEPT ![t].pc =
                  IF aux.m_cachedHour = civ[t].currentHourKey
                  THEN "load m_offsetSeconds"
                  ELSE "computeOffset"]
    /\ UNCHANGED <<dt, dec, ts, dto, text, ok, prev, aux>>

\* fast path: return TimeSpan::fromSeconds( m_offsetSeconds.load( acquire ) )
CacheLoadOffset(t) ==
    /\ civ[t].pc = "load m_offsetSeconds"
    /\ op' = "load m_offsetSeconds"
    /\ civ' = [civ EXCEPT ![t].pc = "returned",
                          ![t].ret = TimeSpanFromSeconds(DFromInt(aux.m_offsetSeconds))]
    /\ UNCHANGED <<dt, dec, ts, dto, text, ok, prev, aux>>

\* slow path: newOffset = computeOffset( dateTime )
CacheCompute(t) ==
    /\ civ[t].pc = "computeOffset"
    /\ op' = "computeOffset"
    /\ civ' = [civ EXCEPT ![t].pc = "store m_offsetSeconds",
                          ![t].newOffset = computeOffset(civ[t].dateTime)]
    /\ prev' = [lastDate |-> civ[t].dateTime,
                lastOffset |-> computeOffset(civ[t].dateTime),
                computations |-> prev.computations + 1]
    /\ UNCHANGED <<dt, dec, ts, dto, text, ok, aux>>

\* m_offsetSeconds.store( newOffset, release )
CacheStoreOffset(t) ==
    /\ civ[t].pc = "store m_offsetSeconds"
    /\ op' = "store m_offsetSeconds"
    /\ aux' = [aux EXCEPT !.m_offsetSeconds = civ[t].newOffset]
    /\ civ' = [civ EXCEPT ![t].pc = "store m_cachedHour"]
    /\ UNCHANGED <<dt, dec, ts, dto, text, ok, prev>>

\* m_cachedHour.store( currentHourKey, release ); return fromSeconds( newOffset )
CacheStoreHour(t) ==
    /\ civ[t].pc = "store m_cachedHour"
    /\ op' = "store m_cachedHour"
    /\ aux' = [aux EXCEPT !.m_cachedHour = civ[t].currentHourKey]
    /\ civ' = [civ EXCEPT ![t].pc = "returned",
                          ![t].ret = TimeSpanFromSeconds(DFromInt(civ[t].newOffset))]
    /\ UNCHANGED <<dt, dec, ts, dto, text, ok, prev>>

CacheStep(t) ==
    \/ \E dateTime \in CacheDates : CacheCall(t, dateTime)
    \/ CacheLoadHour(t)
    \/ CacheLoadOffset(t)
    \/ CacheCompute(t)
    \/ CacheStoreOffset(t)
    \/ CacheStoreHour(t)

CacheNext == \E t \in CacheThreads : CacheStep(t)

SpecCache == CacheInit /\ [][CacheNext]_vars

\* the offset the platform reports for the hour a date lies in
PlatformOffsetFor(dateTime) ==
    TimeSpanFromSeconds(DFromInt(ZoneOffsetAt(toEpochSeconds(dateTime))))

\* C25: under every interleaving of concurrent offset() calls, a call that
\* has returned has returned the offset the platform reports for the hour it
\* asked about.
C25_ReturnsOffsetOfHourAsked ==
    \A t \in CacheThreads :
        civ[t].pc = "returned" => civ[t].ret = PlatformOffsetFor(civ[t].dateTime)

\* the cache in the hands of one thread
SingleNext == CacheStep(1)

SpecCacheSingle == CacheInit /\ [][SingleNext]_vars

\* the hour a date lies in: its year, month, day and hour
HourOf(dateTime) ==
    <<dateComponentsFromTicks(dateTime).year, dateComponentsFromTicks(dateTime).month,
      dateComponentsFromTicks(dateTime).day, timeComponentsFromTicks(dateTime).hour>>

\* C26: in single-threaded use a query goes to the platform computation
\* exactly when no computation has happened yet or the hour of its date
\* differs from the hour of the most recent computation, and otherwise it
\* returns the offset that computation stored.
C26_ComputesWhenHourChanges ==
    [][ /\ (civ[1].pc = "load m_cachedHour" /\ civ'[1].pc # "load m_cachedHour") =>
              (civ'[1].pc = "computeOffset"
                  <=> (prev.computations = 0
                       \/ HourOf(prev.lastDate) # HourOf(civ[1].dateTime)))
        /\ (civ[1].pc = "load m_offsetSeconds" /\ civ'[1].pc = "returned") =>
              civ'[1].ret = TimeSpanFromSeconds(DFromInt(prev.lastOffset)) ]_vars

\* a second query in the hour of the first has returned the stored offset:
\* two calls, one computation
C26_Witness ==
    /\ civ[1].pc = "returned"
    /\ op = "load m_offsetSeconds"
    /\ dec = 2 /\ prev.computations = 1
    /\ prev.lastDate = DateTimeFromDateAndTime(2024, 3, 31, 0, 30, 0)
    /\ civ[1].dateTime = DateTimeFromDateAndTime(2024, 3, 31, 0, 45, 0)
    /\ civ[1].ret = Tk(0, 3600, 0)

-----------------------------------------------------------------------------
(* Leftover characters: a date or date-time in the grammar, followed by
   characters that are neither a Z nor an offset *)

LeftoverBases ==
    {DateTimeToString(Tk(d, 0, 0), "DateOnly") : d \in {0, 738899, 3652058}}
    \cup {LET str == DateTimeToString(Tk(d, sec, 0), "Iso8601Basic")
          IN  SubSeq(str, 1, Len(str) - 1) :
            d \in {0, 738899, 3652058}, sec \in {0, 43200, 86399}}
    \cup {LET str == DateTimeToString(Tk(d, 43200, f), "Iso8601Extended")
          IN  SubSeq(str, 1, Len(str) - 1) :
            d \in {738899, 3652058}, f \in {0, 1, 5000000, 9999999}}

\* "xyz", " 12:00:00", "abc", " " and "/"
LeftoverTexts ==
    { <<"x", "y", "z">>, <<" ", "1", "2", ":", "0", "0", ":", "0", "0">>,
      <<"a", "b", "c">>, <<" ">>, <<"/">> }

\* text is a base followed by leftover characters; dt is the caller's value
LeftoverInit ==
    /\ op = "init"
    /\ aux \in [base : LeftoverBases, leftover : LeftoverTexts]
    /\ text = aux.base \o aux.leftover
    /\ dt = DateTimeSentinel
    /\ ok = FALSE
    /\ civ = 0 /\ dec = 0 /\ ts = TkZero /\ prev = DateTimeSentinel
    /\ dto = DateTimeOffsetDefault

\* ok = DateTime::fromString( text, dt )
LeftoverFromString ==
    /\ op = "init"
    /\ \E r \in {DateTimeFromString(text, dt)} :
         /\ ok' = r.ret
         /\ dt' = r.result
    /\ op' = "fromString"
    /\ UNCHANGED <<text, aux, prev, ts, civ, dec, dto>>

\* the std::optional overload
LeftoverFromStringOpt ==
    /\ op = "init"
    /\ \E r \in {DateTimeFromStringOpt(text)} :
         /\ ok' = r.has_value
         /\ dt' = r.value
    /\ op' = "fromString(optional)"
    /\ UNCHANGED <<text, aux, prev, ts, civ, dec, dto>>

LeftoverNext == LeftoverFromString \/ LeftoverFromStringOpt

SpecLeftover == LeftoverInit /\ [][LeftoverNext]_vars

\* C27: a date or date-time followed by leftover characters that are not a Z
\* or an offset does not parse.
C27_LeftoverFailsTheParse == op # "init" => ~ok

-----------------------------------------------------------------------------
(* Malformed offset digits: a date-time followed by a sign and digits that
   are not HH:MM, HHMM, HH or H *)

\* ":30", "05:", ":", "5:", ":5" (a side of the colon is empty) and "123",
\* "12345", "123456" (a run of 3, 5 or 6 digits)
MalformedDigits ==
    { <<":", "3", "0">>, <<"0", "5", ":">>, <<":">>, <<"5", ":">>, <<":", "5">>,
      <<"1", "2", "3">>, <<"1", "2", "3", "4", "5">>,
      <<"1", "2", "3", "4", "5", "6">> }

\* text = date-time + sign + digits; aux remembers the parts
MalformedInit ==
    /\ op = "init"
    /\ \E base \in LeftoverBases, sign \in {"+", "-"}, digits \in MalformedDigits :
         /\ Len(base) > 10
         /\ text = base \o <<sign>> \o digits
         /\ aux = [base |-> base, sign |-> sign, digits |-> digits]
    /\ dto = DateTimeOffsetSentinel
    /\ ok = FALSE
    /\ civ = NoCivil
    /\ dec = NoDate
    /\ dt = TkZero
    /\ ts = TkZero
    /\ prev = TkZero

\* ok = DateTimeOffset::tryParse( text, dto )
MalformedTryParse ==
    /\ op = "init"
    /\ \E r \in {DateTimeOffsetTryParse(text, dto)} :
         /\ ok' = r.ret
         /\ dto' = r.result
    /\ op' = "tryParse"
    /\ UNCHANGED <<text, aux, prev, civ, dec, dt, ts>>

\* dto = DateTimeOffset::parse( text ), ok = "no exception"
MalformedParse ==
    /\ op = "init"
    /\ \E r \in {DateTimeOffsetParse(text)} :
         /\ ok' = (r.thrown = "")
         /\ dto' = IF r.thrown = "" THEN r.value ELSE dto
    /\ op' = "parse"
    /\ UNCHANGED <<text, aux, prev, civ, dec, dt, ts>>

MalformedNext == MalformedTryParse \/ MalformedParse

SpecMalformed == MalformedInit /\ [][MalformedNext]_vars

\* C28: a string whose offset digits have nothing on one side of the colon,
\* or are a colon-less run that is not 1, 2 or 4 characters long, does not
\* parse.
C28_MalformedOffsetFailsTheParse == op # "init" => ~ok

-----------------------------------------------------------------------------
(* Decoding: every tick count of the range is taken apart into civil fields
   and put together again *)

\* days at which the 4-, 100- and 400-year cycles and the leap days turn, and
\* the last day of the range
DecodeDays ==
    {0, 1, 58, 59, 364, 365, 1154, 1155, 1459, 1460, 1461, 36523, 36524, 36525,
     146096, 146097, 693594, 730178, 730179, 738899, 739233, 3652058}

DecodeSeconds == {0, 1, 3599, 3600, 43200, 86399}

DecodeFractions == {0, 1, 9999999}

DecodeInit ==
    /\ op = "init"
    /\ dt \in {Tk(d, s, f) : d \in DecodeDays, s \in DecodeSeconds, f \in DecodeFractions}
    /\ civ = NoCivil
    /\ prev = DateTimeSentinel
    /\ ts = TkZero
    /\ dec = NoDate /\ dto = NoDto /\ text = "" /\ ok = FALSE /\ aux = 0

\* year(), month(), day(), hour(), minute(), second(), millisecond() and
\* timeOfDay() of the value
DecodeFields ==
    /\ op = "init"
    /\ civ' = [year |-> dateComponentsFromTicks(dt).year,
               month |-> dateComponentsFromTicks(dt).month,
               day |-> dateComponentsFromTicks(dt).day,
               hour |-> timeComponentsFromTicks(dt).hour,
               minute |-> timeComponentsFromTicks(dt).minute,
               second |-> timeComponentsFromTicks(dt).second,
               millisecond |-> timeComponentsFromTicks(dt).millisecond]
    /\ ts' = timeOfDay(dt)
    /\ op' = "fields"
    /\ UNCHANGED <<dt, prev, dec, dto, text, ok, aux>>

\* the fields go back through dateToTicks, and the time of day is added
DecodeReencode ==
    /\ op = "fields"
    /\ prev' = TkAdd(dateToTicks(civ.year, civ.month, civ.day), ts)
    /\ op' = "dateToTicks"
    /\ UNCHANGED <<dt, civ, ts, dec, dto, text, ok, aux>>

DecodeNext == DecodeFields \/ DecodeReencode

SpecDecode == DecodeInit /\ [][DecodeNext]_vars

\* the civil fields lie in their ranges
FieldsInRange(c) ==
    /\ c.year \in 1..9999
    /\ c.month \in 1..12
    /\ c.day >= 1 /\ c.day <= daysInMonth(c.year, c.month)
    /\ c.hour \in 0..23
    /\ c.minute \in 0..59
    /\ c.second \in 0..59

\* C29: for every tick count of 0..MAX_TICKS the decoded fields are in range
\* and dateToTicks of the date plus the time of day is the tick count again;
\* tick 0 is 0001-01-01T00:00:00 and MAX_TICKS is 9999-12-31T23:59:59.9999999.
C29_DecodeIsTotalAndExact ==
    /\ op # "init" => FieldsInRange(civ)
    /\ op = "dateToTicks" => prev = dt
    /\ (op # "init" /\ dt = MIN_DATETIME_TICKS) =>
          /\ <<civ.year, civ.month, civ.day>> = <<1, 1, 1>>
          /\ <<civ.hour, civ.minute, civ.second>> = <<0, 0, 0>>
          /\ ts = TkZero
    /\ (op # "init" /\ dt = MAX_DATETIME_TICKS) =>
          /\ <<civ.year, civ.month, civ.day>> = <<9999, 12, 31>>
          /\ <<civ.hour, civ.minute, civ.second>> = <<23, 59, 59>>
          /\ ts = Tk(0, 86399, 9999999)

\* the last tick of the range has been decoded and encoded again
C29_Witness ==
    /\ op = "dateToTicks"
    /\ dt = MAX_DATETIME_TICKS
    /\ prev = MAX_DATETIME_TICKS
    /\ civ.year = 9999 /\ civ.month = 12 /\ civ.day = 31

-----------------------------------------------------------------------------
(* OffsetInstant round trip: toIso8601Extended, then tryParse of the text *)

OffsetTripDays == {0, 738899, 3652058}

OffsetTripSeconds == {0, 45045, 86399}

OffsetTripFractions == {0, 1, 50, 1234567, 5000000, 9999999}

\* offsets of a whole number of minutes, in minutes
OffsetTripMinutes == {-840, -839, -330, -60, -30, -1, 0, 1, 30, 60, 330, 839, 840}

\* dto is x; text and prev are the callers' values
OffsetTripInit ==
    /\ op = "init"
    /\ \E day \in OffsetTripDays, sec \in OffsetTripSeconds, f \in OffsetTripFractions,
          m \in OffsetTripMinutes :
         dto = DateTimeOffsetFrom(Tk(day, sec, f), Tk(0, m * SECONDS_PER_MINUTE, 0))
    /\ text = <<>>
    /\ prev = DateTimeOffsetSentinel
    /\ ok = FALSE
    /\ aux = "none"
    /\ ts = TkZero
    /\ dt = TkZero
    /\ civ = NoCivil
    /\ dec = NoDate

\* text = x.toIso8601Extended()
OffsetTripFormat ==
    /\ op = "init"
    /\ text' = DateTimeOffsetToIso8601Extended(dto)
    /\ op' = "toIso8601Extended"
    /\ UNCHANGED <<dto, prev, ok, aux, ts, dt, civ, dec>>

\* ok = DateTimeOffset::tryParse( text, prev )
OffsetTripParse ==
    /\ op = "toIso8601Extended"
    /\ \E r \in {DateTimeOffsetTryParse(text, prev)} :
         /\ ok' = r.ret
         /\ prev' = r.result
    /\ op' = "tryParse"
    /\ UNCHANGED <<dto, text, aux, ts, dt, civ, dec>>

OffsetTripNext == OffsetTripFormat \/ OffsetTripParse

SpecOffsetTrip == OffsetTripInit /\ [][OffsetTripNext]_vars

\* C30: for an x with local ticks in 0..MAX_TICKS and an offset of whole
\* minutes within 14 hours, parsing x.toIso8601Extended() succeeds and gives
\* the local ticks and the offset of x.
C30_ExtendedTextParsesBack ==
    op = "tryParse" => (ok /\ equalsExact(prev, dto))

\* the last tick of the range at -05:30 has come back from its text
C30_Witness ==
    /\ op = "tryParse"
    /\ ok
    /\ dto = DateTimeOffsetFrom(MAX_DATETIME_TICKS, Tk(0, -19800, 0))
    /\ prev = dto

====
